---- MODULE Spec2Model ----
(***************************************************************************)
(* Landmark processing pipeline of the motion-capture application:         *)
(* Densifier -> Stabilizer -> WaveMotionEngine, driven by the render loop. *)
(*                                                                         *)
(* Numbers.  JavaScript numbers are modelled as fixed-point integers in    *)
(* units of 1/Scale (0.5 is 500); timestamps are in milliseconds.  Every   *)
(* arithmetic expression of the source is translated operation by          *)
(* operation; a quotient is rounded down to the fixed-point grid.          *)
(*                                                                         *)
(* Optional values.  A JavaScript value that may be null or undefined is   *)
(* the empty tuple None or the one-element tuple Some(v).                  *)
(*                                                                         *)
(* Style.  A value a function computes once and uses several times is      *)
(* handed on as the parameter of a continuation operator (F calls          *)
(* F_then(..., value)), which keeps the definitions linear in size.        *)
(***************************************************************************)
EXTENDS Integers, Sequences, FiniteSets, TLC

None == <<>>
Some(v) == <<v>>
Max(a, b) == IF a >= b THEN a ELSE b
Min(a, b) == IF a <= b THEN a ELSE b
Abs(a) == IF a < 0 THEN -a ELSE a
\* The elements of a list.
Members(indices) == {indices[i] : i \in 1..Len(indices)}

\* Fixed-point resolution of the model.
Scale == 10 ^ 3
\* (timestamp - tPrev) / 1000: milliseconds to seconds.
MsPerSec == 1000
\* 2 * Math.PI, in units of 1/Scale.
TwoPi == 6283

\* JavaScript `v || d` on an optional number: undefined, null and 0 are falsy.
OrElse(o, d) == IF o = None \/ o = Some(0) THEN d ELSE o[1]

(***************************************************************************)
(* Stabilizer configuration                                                *)
(***************************************************************************)
DefaultMinCutoff == 800
DefaultBeta == 5
DefaultDCutoff == 1000
DefaultProcessNoise == 5
DefaultMeasurementNoise == 50

\* The options object an application passes to `new Stabilizer(config)`.
NoOptions ==
    [minCutoff |-> None, beta |-> None, dCutoff |-> None, processNoise |-> None,
     measurementNoise |-> None, useKalman |-> None]

\* Stabilizer constructor: this.config.
Stabilizer_config(opts) ==
    [minCutoff |-> OrElse(opts.minCutoff, DefaultMinCutoff),
     beta |-> OrElse(opts.beta, DefaultBeta),
     dCutoff |-> OrElse(opts.dCutoff, DefaultDCutoff),
     processNoise |-> OrElse(opts.processNoise, DefaultProcessNoise),
     measurementNoise |-> OrElse(opts.measurementNoise, DefaultMeasurementNoise),
     useKalman |-> (opts.useKalman # Some(FALSE))]

(***************************************************************************)
(* OneEuroFilter                                                           *)
(***************************************************************************)
NewOneEuroFilter == [xPrev |-> None, dxPrev |-> None, tPrev |-> None]

lowPass(x, xPrev, a) == (a * x + (Scale - a) * xPrev) \div Scale

\* The smoothing factor of a cutoff of 0: the filtered value never moves.
alpha_frozen(cutoff, dtMs) == 0

\* A cutoff so high (Infinity, Number.MAX_VALUE) that tau / dt is below the
\* resolution of a double next to 1.
Infinity == 2^30

\* alpha = 1 / (1 + tau/dt), tau = 1 / (2 pi cutoff)  =  r / (r + 1), r = 2 pi cutoff dt;
\* 1.0 / (1.0 + tau / dt) is exactly 1 when tau / dt is 0 or negligible.
alpha(cutoff, dtMs) ==
    IF cutoff >= Infinity THEN Scale
    ELSE LET r == ((TwoPi * cutoff) \div Scale) * dtMs
         IN  (r * Scale) \div (r + Scale * MsPerSec)

\* The time delta with a floor for a repeated timestamp only.
TimeDelta_signed(t, tPrev) == IF t = tPrev THEN 1 ELSE t - tPrev

\* dt = Math.max((timestamp - tPrev) / 1000, 0.001), kept in milliseconds
TimeDelta(t, tPrev) == Max(t - tPrev, 1)

\* The assignments and the return value of filter() after the first sample.
OneEuroFilter_store(t, dxFiltered, xFiltered) ==
    [f |-> [xPrev |-> Some(xFiltered), dxPrev |-> Some(dxFiltered), tPrev |-> Some(t)],
     out |-> xFiltered]

\* cutoff = minCutoff + beta * |dxFiltered|; xFiltered = lowPass(x, xPrev, alpha(cutoff, dt))
OneEuroFilter_value(f, cfg, x, t, dtMs, dxFiltered) ==
    OneEuroFilter_store(t, dxFiltered,
        lowPass(x, f.xPrev[1],
                alpha(cfg.minCutoff + (cfg.beta * Abs(dxFiltered)) \div Scale, dtMs)))

\* dx = (x - xPrev) / dt; dxFiltered = lowPass(dx, dxPrev, alpha(dCutoff, dt))
OneEuroFilter_derivative(f, cfg, x, t, dtMs) ==
    OneEuroFilter_value(f, cfg, x, t, dtMs,
        lowPass(((x - f.xPrev[1]) * MsPerSec) \div dtMs, f.dxPrev[1],
                alpha(cfg.dCutoff, dtMs)))

OneEuroFilter_filter(f, cfg, x, t) ==
    IF f.tPrev = None
    THEN [f |-> [xPrev |-> Some(x), dxPrev |-> Some(0), tPrev |-> Some(t)], out |-> x]
    ELSE OneEuroFilter_derivative(f, cfg, x, t, TimeDelta(t, f.tPrev[1]))

(***************************************************************************)
(* KalmanFilter1D                                                          *)
(***************************************************************************)
NewKalmanFilter1D ==
    [x |-> None, P |-> Scale, K |-> 0, velocity |-> 0, lastTimestamp |-> None]

\* this.P, this.velocity, this.lastTimestamp and the return value, given K and x.
KalmanFilter1D_store(k, t, dtMs, xPredicted, pPredicted, K, x) ==
    [f |-> [x |-> Some(x),
            P |-> ((Scale - K) * pPredicted) \div Scale,
            K |-> K,
            velocity |-> (((x - xPredicted) * MsPerSec) \div dtMs) \div 2
                         + k.velocity \div 2,
            lastTimestamp |-> Some(t)],
     out |-> x]

\* Update step: K = pPredicted / (pPredicted + R); x = xPredicted + K (z - xPredicted)
KalmanFilter1D_correct(k, cfg, measurement, t, dtMs, xPredicted, pPredicted, K) ==
    KalmanFilter1D_store(k, t, dtMs, xPredicted, pPredicted, K,
                         xPredicted + (K * (measurement - xPredicted)) \div Scale)

\* Predict step: xPredicted = x + velocity * dt; pPredicted = P + Q
KalmanFilter1D_step(k, cfg, measurement, t, dtMs, xPredicted, pPredicted) ==
    KalmanFilter1D_correct(k, cfg, measurement, t, dtMs, xPredicted, pPredicted,
                           (pPredicted * Scale) \div (pPredicted + cfg.measurementNoise))

KalmanFilter1D_update(k, cfg, measurement, t) ==
    IF k.x = None
    THEN [f |-> [k EXCEPT !.x = Some(measurement), !.lastTimestamp = Some(t)],
          out |-> measurement]
    ELSE KalmanFilter1D_step(k, cfg, measurement, t,
             TimeDelta(t, k.lastTimestamp[1]),
             k.x[1] + (k.velocity * TimeDelta(t, k.lastTimestamp[1])) \div MsPerSec,
             k.P + cfg.processNoise)

\* predict(timestamp): the estimate extrapolated by the stored velocity, or null.
KalmanFilter1D_predict(k, t) ==
    IF k.x = None THEN None
    ELSE Some(k.x[1] + (k.velocity * TimeDelta(t, k.lastTimestamp[1])) \div MsPerSec)

\* reset() leaves K as it is.
KalmanFilter1D_reset(k) ==
    [k EXCEPT !.x = None, !.P = Scale, !.velocity = 0, !.lastTimestamp = None]

(***************************************************************************)
(* Point3DFilter                                                           *)
(***************************************************************************)
\* if (this.occlusionFrames > 10)
OcclusionLimit == 10
\* visibility: 0.3 of a predicted point
PredictedVisibility == 300

\* `ref` is the identity of the object: the serial number of its allocation.
NewPoint3DFilter(ref) ==
    [euroX |-> NewOneEuroFilter, euroY |-> NewOneEuroFilter, euroZ |-> NewOneEuroFilter,
     kalmanX |-> NewKalmanFilter1D, kalmanY |-> NewKalmanFilter1D,
     kalmanZ |-> NewKalmanFilter1D,
     lastPoint |-> None, isOccluded |-> FALSE, occlusionFrames |-> 0, ref |-> ref]

Point3DFilter_reset(f) ==
    [f EXCEPT !.euroX = NewOneEuroFilter, !.euroY = NewOneEuroFilter,
              !.euroZ = NewOneEuroFilter,
              !.kalmanX = KalmanFilter1D_reset(f.kalmanX),
              !.kalmanY = KalmanFilter1D_reset(f.kalmanY),
              !.kalmanZ = KalmanFilter1D_reset(f.kalmanZ),
              !.lastPoint = None, !.occlusionFrames = 0]

\* The occlusion branch with a prediction that moves the Kalman filters on to the
\* predicted time.
Point3DFilter_missed_advancing(g, cfg, t) ==
    IF g.occlusionFrames > OcclusionLimit
    THEN [f |-> Point3DFilter_reset(g), out |-> None]
    ELSE IF cfg.useKalman /\ g.lastPoint # None
    THEN [f |-> [g EXCEPT !.kalmanX.lastTimestamp = Some(t),
                          !.kalmanY.lastTimestamp = Some(t),
                          !.kalmanZ.lastTimestamp = Some(t)],
          out |-> Some([x |-> KalmanFilter1D_predict(g.kalmanX, t),
                        y |-> KalmanFilter1D_predict(g.kalmanY, t),
                        z |-> KalmanFilter1D_predict(g.kalmanZ, t),
                        visibility |-> PredictedVisibility,
                        predicted |-> TRUE])]
    ELSE [f |-> g, out |-> g.lastPoint]

\* filter(point, timestamp) without a point: the occlusion branch.
Point3DFilter_missed(g, cfg, t) ==
    IF g.occlusionFrames > OcclusionLimit
    THEN [f |-> Point3DFilter_reset(g), out |-> None]
    ELSE IF cfg.useKalman /\ g.lastPoint # None
    THEN [f |-> g,
          out |-> Some([x |-> KalmanFilter1D_predict(g.kalmanX, t),
                        y |-> KalmanFilter1D_predict(g.kalmanY, t),
                        z |-> KalmanFilter1D_predict(g.kalmanZ, t),
                        visibility |-> PredictedVisibility,
                        predicted |-> TRUE])]
    ELSE [f |-> g, out |-> g.lastPoint]

Point3DFilter_occluded(f, cfg, t) ==
    Point3DFilter_missed([f EXCEPT !.occlusionFrames = f.occlusionFrames + 1], cfg, t)

\* filter(point, timestamp) with a point: 1-euro filter, then Kalman on top.
\* this.lastPoint = {x, y, z, visibility: point.visibility || 1, predicted: false}
Point3DFilter_store(f, ex, ey, ez, kx, ky, kz, lastPoint) ==
    [f |-> [f EXCEPT !.occlusionFrames = 0,
                     !.euroX = ex.f, !.euroY = ey.f, !.euroZ = ez.f,
                     !.kalmanX = kx.f, !.kalmanY = ky.f, !.kalmanZ = kz.f,
                     !.lastPoint = Some(lastPoint)],
     out |-> Some(lastPoint)]

Point3DFilter_lastPoint(f, point, ex, ey, ez, kx, ky, kz) ==
    Point3DFilter_store(f, ex, ey, ez, kx, ky, kz,
        [x |-> Some(kx.out), y |-> Some(ky.out), z |-> Some(kz.out),
         visibility |-> OrElse(point.visibility, Scale),
         predicted |-> FALSE])

\* if (this.useKalman) { x = this.kalmanX.update(x, timestamp); ... }
Point3DFilter_kalman(f, cfg, point, t, ex, ey, ez) ==
    IF cfg.useKalman
    THEN Point3DFilter_lastPoint(f, point, ex, ey, ez,
             KalmanFilter1D_update(f.kalmanX, cfg, ex.out, t),
             KalmanFilter1D_update(f.kalmanY, cfg, ey.out, t),
             KalmanFilter1D_update(f.kalmanZ, cfg, ez.out, t))
    ELSE Point3DFilter_lastPoint(f, point, ex, ey, ez,
             [f |-> f.kalmanX, out |-> ex.out],
             [f |-> f.kalmanY, out |-> ey.out],
             [f |-> f.kalmanZ, out |-> ez.out])

Point3DFilter_measured(f, cfg, point, t) ==
    Point3DFilter_kalman(f, cfg, point, t,
        OneEuroFilter_filter(f.euroX, cfg, point.x, t),
        OneEuroFilter_filter(f.euroY, cfg, point.y, t),
        OneEuroFilter_filter(f.euroZ, cfg, point.z, t))

\* filter(point, timestamp); `point` is None for a falsy argument.
Point3DFilter_filter(f, cfg, point, t) ==
    IF point = None THEN Point3DFilter_occluded(f, cfg, t)
    ELSE Point3DFilter_measured(f, cfg, point[1], t)

(***************************************************************************)
(* Points and frames                                                       *)
(*                                                                         *)
(* A point is one record type for raw landmarks, dense vertices and        *)
(* stabilized points; a property the JavaScript object does not have is    *)
(* None.  A frame is the bundle {face, body, hands, blendshapes,           *)
(* timestamp, fps}; a group is {points, count}.                            *)
(***************************************************************************)
Landmark(x, y, z, visibility) ==
    [x |-> x, y |-> y, z |-> z, visibility |-> visibility,
     originalIndex |-> None, region |-> None, interpolated |-> None,
     handIndex |-> None, depthLayer |-> None, surfaceU |-> None, surfaceV |-> None,
     stabilized |-> None]

Group(points) == [points |-> points, count |-> Len(points)]

(***************************************************************************)
(* Densifier                                                               *)
(*                                                                         *)
(* A call that can raise a TypeError (reading a property of undefined)     *)
(* returns a result: TypeError, or Ok(points) with the points it made.     *)
(* Collect joins the results of the calls a function makes in sequence:    *)
(* the exception of any of them is the exception of the function.          *)
(***************************************************************************)
Ok(points) == [threw |-> FALSE, points |-> points]
TypeError == [threw |-> TRUE, points |-> <<>>]

RECURSIVE Flatten(_, _)
Flatten(rs, i) == IF i > Len(rs) THEN <<>> ELSE rs[i].points \o Flatten(rs, i + 1)
Collect(rs) ==
    IF \E i \in DOMAIN rs : rs[i].threw THEN TypeError ELSE Ok(Flatten(rs, 1))

\* landmarks[idx] (idx from 0): undefined past the end of the array.
At(landmarks, idx) ==
    IF idx < Len(landmarks) THEN Some(landmarks[idx + 1]) ELSE None

\* points.forEach(p => p.region = region)
Tagged(r, region) ==
    IF r.threw THEN TypeError
    ELSE Ok([i \in 1..Len(r.points) |-> [r.points[i] EXCEPT !.region = Some(region)]])

\* Interpolation settings of the constructor and the literals of the methods.
bodySubdivisions == 5
faceSubdivisions == 2
surfaceGridSize == 5
handSubdivisions == 3
spineSubdivisions == 8
cheekLayers == 3
\* layer * 0.02
depthStep == 20
\* lerp(leftShoulder, rightShoulder, 0.5)
Midway == 500

\* defineBodyConnections()
leftArm == << <<11, 13>>, <<13, 15>> >>
rightArm == << <<12, 14>>, <<14, 16>> >>
leftLeg == << <<23, 25>>, <<25, 27>>, <<27, 31>> >>
rightLeg == << <<24, 26>>, <<26, 28>>, <<28, 32>> >>
torso == <<11, 12, 24, 23>>

\* defineFaceRegions(): the regions densifyFace uses.
leftEye == <<33, 246, 161, 160, 159, 158, 157, 173, 133, 155, 154, 153, 145, 144, 163, 7>>
rightEye ==
    <<362, 398, 384, 385, 386, 387, 388, 466, 263, 249, 390, 373, 374, 380, 381, 382>>
leftEyebrow == <<70, 63, 105, 66, 107, 55, 65, 52, 53, 46>>
rightEyebrow == <<300, 293, 334, 296, 336, 285, 295, 282, 283, 276>>
lipsOuter ==
    <<61, 146, 91, 181, 84, 17, 314, 405, 321, 375, 291, 409, 270, 269, 267, 0, 37, 39,
      40, 185>>
lipsInner ==
    <<78, 95, 88, 178, 87, 14, 317, 402, 318, 324, 308, 415, 310, 311, 312, 13, 82, 81,
      80, 191>>
faceOval ==
    <<10, 338, 297, 332, 284, 251, 389, 356, 454, 323, 361, 288, 397, 365, 379, 378, 400,
      377, 152, 148, 176, 149, 150, 136, 172, 58, 132, 93, 234, 127, 162, 21, 54, 103,
      67, 109>>
leftCheek == <<234, 93, 132, 58, 172, 136, 150, 149, 176, 148, 152>>
rightCheek == <<454, 323, 361, 288, 397, 365, 379, 378, 400, 377, 152>>

\* densifyHands: fingerConnections
fingerConnections ==
    << <<0, 1>>, <<1, 2>>, <<2, 3>>, <<3, 4>>,
       <<0, 5>>, <<5, 6>>, <<6, 7>>, <<7, 8>>,
       <<0, 9>>, <<9, 10>>, <<10, 11>>, <<11, 12>>,
       <<0, 13>>, <<13, 14>>, <<14, 15>>, <<15, 16>>,
       <<0, 17>>, <<17, 18>>, <<18, 19>>, <<19, 20>> >>

\* lerp(p1, p2, t): p1 and p2 are None when undefined (p1.x then throws).
\* z is a number in every landmark of the model, so `p.z || 0` is p.z.
lerp(p1, p2, t) ==
    IF p1 = None \/ p2 = None THEN TypeError
    ELSE Ok(<<[Landmark(p1[1].x + ((p2[1].x - p1[1].x) * t) \div Scale,
                        p1[1].y + ((p2[1].y - p1[1].y) * t) \div Scale,
                        p1[1].z + ((p2[1].z - p1[1].z) * t) \div Scale,
                        Some((OrElse(p1[1].visibility, Scale)
                              + OrElse(p2[1].visibility, Scale)) \div 2))
                 EXCEPT !.interpolated = Some(TRUE)]>>)

\* interpolateSegment leaving out the segments that start at a point of visibility 0.
interpolateSegment_skipsHidden(p1, p2, subdivisions) ==
    IF p1 # None /\ p1[1].visibility = Some(0) THEN Ok(<<>>)
    ELSE Collect([i \in 1..(subdivisions - 1) |->
                     lerp(p1, p2, (i * Scale) \div subdivisions)])

\* interpolateSegment(p1, p2, subdivisions): t = i / subdivisions, 0 < i < subdivisions
interpolateSegment(p1, p2, subdivisions) ==
    Collect([i \in 1..(subdivisions - 1) |-> lerp(p1, p2, (i * Scale) \div subdivisions)])

\* const point = this.lerp(top, bottom, v); point.surfaceU = u; point.surfaceV = v
surfacePoint(top, bottom, u, v) ==
    IF top.threw \/ bottom.threw THEN TypeError
    ELSE Ok(<<[lerp(Some(top.points[1]), Some(bottom.points[1]), v).points[1]
                 EXCEPT !.surfaceU = Some(u), !.surfaceV = Some(v)]>>)

\* The loop body with the bottom edge taken from bottom-right to bottom-left.
surfaceCell_crossed(corners, u, v) ==
    surfacePoint(lerp(corners[1], corners[2], u), lerp(corners[3], corners[4], u), u, v)

\* const top = this.lerp(corners[0], corners[1], u);
\* const bottom = this.lerp(corners[3], corners[2], u); ...
surfaceCell(corners, u, v) ==
    surfacePoint(lerp(corners[1], corners[2], u), lerp(corners[4], corners[3], u), u, v)

\* interpolateSurface(corners, gridSize): cell k is (i, j) = (k div (G+1), k mod (G+1))
interpolateSurface(corners, gridSize) ==
    Collect([k \in 1..((gridSize + 1) * (gridSize + 1)) |->
                surfaceCell(corners,
                            (((k - 1) \div (gridSize + 1)) * Scale) \div gridSize,
                            (((k - 1) % (gridSize + 1)) * Scale) \div gridSize)])

\* {...curr}: spreading undefined gives an object without coordinates.
NoProperties == Landmark(None, None, None, None)
Spread(curr) == IF curr = None THEN NoProperties ELSE curr[1]

\* One iteration of subdivideContour: the original point, then the interpolated ones.
contourStep(curr, next, index, subdivisions) ==
    Collect(<<Ok(<<[Spread(curr) EXCEPT !.originalIndex = Some(index)]>>),
              interpolateSegment(curr, next, subdivisions + 1)>>)

\* subdivideContour with an open contour: the last index is not joined to the first.
subdivideContour_open(landmarks, indices, subdivisions) ==
    Collect([i \in 1..Len(indices) |->
                contourStep(At(landmarks, indices[i]),
                            At(landmarks, indices[Min(i + 1, Len(indices))]),
                            indices[i], subdivisions)])

\* subdivideContour(landmarks, indices, subdivisions)
subdivideContour(landmarks, indices, subdivisions) ==
    Collect([i \in 1..Len(indices) |->
                contourStep(At(landmarks, indices[i]),
                            At(landmarks, indices[(i % Len(indices)) + 1]),
                            indices[i], subdivisions)])

RECURSIVE SumOf(_, _, _, _)
SumOf(landmarks, indices, i, axis) ==
    IF i > Len(indices) THEN 0
    ELSE (IF axis = "x" THEN landmarks[indices[i] + 1].x
          ELSE IF axis = "y" THEN landmarks[indices[i] + 1].y
          ELSE landmarks[indices[i] + 1].z)
         + SumOf(landmarks, indices, i + 1, axis)

\* computeCentroid(landmarks, indices): landmarks[idx].x throws on a missing landmark.
computeCentroid(landmarks, indices) ==
    IF \E i \in 1..Len(indices) : At(landmarks, indices[i]) = None THEN TypeError
    ELSE Ok(<<[x |-> SumOf(landmarks, indices, 1, "x") \div Len(indices),
               y |-> SumOf(landmarks, indices, 1, "y") \div Len(indices),
               z |-> SumOf(landmarks, indices, 1, "z") \div Len(indices)]>>)

layerPoint(p, layer) ==
    [Landmark(p.x, p.y, p.z - layer * depthStep, Some(OrElse(p.visibility, Scale)))
       EXCEPT !.depthLayer = Some(layer), !.interpolated = Some(layer > 0)]

\* createDepthLayers(landmarks, indices, numLayers): point k is (layer, index) =
\* (k div n, k mod n)
createDepthLayers(landmarks, indices, numLayers) ==
    IF computeCentroid(landmarks, indices).threw THEN TypeError
    ELSE Ok([k \in 1..(numLayers * Len(indices)) |->
                layerPoint(landmarks[indices[((k - 1) % Len(indices)) + 1] + 1],
                           (k - 1) \div Len(indices))])

\* landmarks.forEach((lm, idx) => points.push({...lm, originalIndex: idx, region,
\* interpolated: false}))
originalPoints(landmarks, region) ==
    [i \in 1..Len(landmarks) |->
        [landmarks[i] EXCEPT !.originalIndex = Some(i - 1), !.region = Some(region),
                             !.interpolated = Some(FALSE)]]

\* for (const [a, b] of segments) interpolateSegment(landmarks[a], landmarks[b], subs)
interpolateSegments(landmarks, segments, subs) ==
    Collect([s \in 1..Len(segments) |->
                interpolateSegment(At(landmarks, segments[s][1]),
                                   At(landmarks, segments[s][2]), subs)])

\* interpolateSegment(neckCenter, hipCenter, 8)
spinePoints(neckCenter, hipCenter) ==
    IF neckCenter.threw \/ hipCenter.threw THEN TypeError
    ELSE interpolateSegment(Some(neckCenter.points[1]), Some(hipCenter.points[1]),
                            spineSubdivisions)

densifyBody_points(poseLandmarks) ==
    Collect(<<
        Ok(originalPoints(poseLandmarks, "body")),
        Tagged(interpolateSegments(poseLandmarks, leftArm \o rightArm, bodySubdivisions),
               "arm"),
        Tagged(interpolateSegments(poseLandmarks, leftLeg \o rightLeg, bodySubdivisions),
               "leg"),
        Tagged(spinePoints(lerp(At(poseLandmarks, 11), At(poseLandmarks, 12), Midway),
                           lerp(At(poseLandmarks, 23), At(poseLandmarks, 24), Midway)),
               "spine"),
        Tagged(interpolateSurface([c \in 1..4 |-> At(poseLandmarks, torso[c])],
                                  surfaceGridSize), "torso") >>)

\* densifyBody(poseLandmarks); poseLandmarks is None when undefined.
densifyBody(poseLandmarks) ==
    IF poseLandmarks = None THEN Ok(<<>>) ELSE densifyBody_points(poseLandmarks[1])

densifyFace_points(faceLandmarks) ==
    Collect(<<
        Ok(originalPoints(faceLandmarks, "face")),
        Tagged(subdivideContour(faceLandmarks, leftEye, faceSubdivisions), "leftEye"),
        Tagged(subdivideContour(faceLandmarks, rightEye, faceSubdivisions), "rightEye"),
        Tagged(subdivideContour(faceLandmarks, leftEyebrow, faceSubdivisions),
               "leftEyebrow"),
        Tagged(subdivideContour(faceLandmarks, rightEyebrow, faceSubdivisions),
               "rightEyebrow"),
        Tagged(subdivideContour(faceLandmarks, lipsOuter, faceSubdivisions), "lipsOuter"),
        Tagged(subdivideContour(faceLandmarks, lipsInner, faceSubdivisions), "lipsInner"),
        Tagged(subdivideContour(faceLandmarks, faceOval, faceSubdivisions), "jawline"),
        Tagged(createDepthLayers(faceLandmarks, leftCheek, cheekLayers), "leftCheek"),
        Tagged(createDepthLayers(faceLandmarks, rightCheek, cheekLayers), "rightCheek") >>)

\* densifyFace(faceLandmarks); faceLandmarks is None when undefined.
densifyFace(faceLandmarks) ==
    IF faceLandmarks = None THEN Ok(<<>>) ELSE densifyFace_points(faceLandmarks[1])

\* handsData.handedness?.[handIdx]?.[0]?.categoryName || 'Unknown'
handednessOf(handsData, handIdx) ==
    IF handIdx < Len(handsData.handedness) THEN handsData.handedness[handIdx + 1]
    ELSE "Unknown"

withHand(r, handIdx) ==
    IF r.threw THEN TypeError
    ELSE Ok([i \in 1..Len(r.points) |-> [r.points[i] EXCEPT !.handIndex = Some(handIdx)]])

\* One iteration of handsData.landmarks.forEach((handLandmarks, handIdx) => ...);
\* the region is `hand_${handedness}`.
densifyHand(handsData, handLandmarks, handIdx) ==
    withHand(Tagged(Collect(<<Ok(originalPoints(handLandmarks, "hand")),
                              interpolateSegments(handLandmarks, fingerConnections,
                                                  handSubdivisions)>>),
                    "hand_" \o handednessOf(handsData, handIdx)),
             handIdx)

\* densifyHands(handsData); handsData is None when null, its landmarks a list of hands.
densifyHands(handsData) ==
    IF handsData = None THEN Ok(<<>>)
    ELSE Collect([h \in 1..Len(handsData[1].landmarks) |->
                     densifyHand(handsData[1], handsData[1].landmarks[h], h - 1)])

\* trackingResults.face?.landmarks
LandmarksOf(group) == IF group = None THEN None ELSE Some(group[1].landmarks)

densify_return(trackingResults, face, body, hands) ==
    IF face.threw \/ body.threw \/ hands.threw THEN [threw |-> TRUE, out |-> None]
    ELSE [threw |-> FALSE,
          out |-> Some([face |-> Some(Group(face.points)),
                        body |-> Some(Group(body.points)),
                        hands |-> Some(Group(hands.points)),
                        blendshapes |-> IF trackingResults.face = None THEN <<>>
                                        ELSE trackingResults.face[1].blendshapes,
                        timestamp |-> Some(trackingResults.timestamp),
                        fps |-> trackingResults.fps,
                        totalPoints |-> Len(face.points) + Len(body.points)
                                        + Len(hands.points)])]

\* densify(trackingResults): out is None for the null return.
densify(trackingResults) ==
    IF trackingResults = None THEN [threw |-> FALSE, out |-> None]
    ELSE densify_return(trackingResults[1],
                        densifyFace(LandmarksOf(trackingResults[1].face)),
                        densifyBody(LandmarksOf(trackingResults[1].pose)),
                        densifyHands(trackingResults[1].hands))

(***************************************************************************)
(* Stabilizer                                                              *)
(***************************************************************************)
EmptyMap == [k \in {} |-> None]

\* getFilter with the has() test lost: a new filter on every call.
getFilter_alwaysNew(filterMap, id, heap) ==
    [map |-> [k \in DOMAIN filterMap \cup {id} |->
                 IF k = id THEN NewPoint3DFilter(heap + 1) ELSE filterMap[k]],
     heap |-> heap + 1]

\* getFilter(filterMap, id): the filter of `id`, created when the map has none.
getFilter(filterMap, id, heap) ==
    IF id \in DOMAIN filterMap
    THEN [map |-> filterMap, heap |-> heap]
    ELSE [map |-> filterMap @@ (id :> NewPoint3DFilter(heap + 1)), heap |-> heap + 1]

\* const id = prefix + (point.originalIndex !== undefined ? point.originalIndex : i)
\* (i counts from 0); the string is modelled as the pair <<prefix, number>>.
PointId(prefix, point, i) ==
    <<prefix, IF point.originalIndex # None THEN point.originalIndex[1] ELSE i - 1>>

\* The push without `...point`: only the filtered values reach the output.
stabilizePoint_push_bare(st, point, id, got, res) ==
    [map |-> [got.map EXCEPT ![id] = res.f],
     heap |-> got.heap,
     out |-> IF res.out # None
             THEN Append(st.out,
                         [Landmark(res.out[1].x[1], res.out[1].y[1], res.out[1].z[1],
                                   Some(res.out[1].visibility))
                            EXCEPT !.stabilized = Some(TRUE)])
             ELSE st.out]

\* One iteration of the loop of stabilizePoints, for points[i] (i from 1).
\* if (filtered) stabilized.push({...point, x, y, z, visibility, stabilized: true})
stabilizePoint_push(st, point, id, got, res) ==
    [map |-> [got.map EXCEPT ![id] = res.f],
     heap |-> got.heap,
     out |-> IF res.out # None
             THEN Append(st.out,
                         [point EXCEPT !.x = res.out[1].x[1], !.y = res.out[1].y[1],
                                       !.z = res.out[1].z[1],
                                       !.visibility = Some(res.out[1].visibility),
                                       !.stabilized = Some(TRUE)])
             ELSE st.out]

\* const filtered = filter.filter(point, timestamp)
stabilizePoint_filter(st, point, id, cfg, t, got) ==
    stabilizePoint_push(st, point, id, got,
                        Point3DFilter_filter(got.map[id], cfg, Some(point), t))

\* const filter = this.getFilter(filterMap, id)
stabilizePoint_get(st, point, id, cfg, t) ==
    stabilizePoint_filter(st, point, id, cfg, t, getFilter(st.map, id, st.heap))

stabilizePoint(st, points, i, cfg, t, prefix) ==
    stabilizePoint_get(st, points[i], PointId(prefix, points[i], i), cfg, t)

RECURSIVE stabilizeLoop(_, _, _, _, _, _, _)
\* for (let i = 0; i < points.length; i++), here for the points lo..hi in order:
\* first the lower half of the range, then (st is its result, and st.heap >= 0
\* has it evaluated at this point) the upper half.
stabilizeLoop(st, points, lo, hi, cfg, t, prefix) ==
    IF lo > hi \/ st.heap < 0 THEN st
    ELSE IF lo = hi THEN stabilizePoint(st, points, lo, cfg, t, prefix)
    ELSE stabilizeLoop(stabilizeLoop(st, points, lo, (lo + hi) \div 2, cfg, t, prefix),
                       points, ((lo + hi) \div 2) + 1, hi, cfg, t, prefix)

\* stabilizePoints with a filter bank that is emptied by an empty point list.
stabilizePoints_clearsOnEmpty(points, filterMap, heap, cfg, t, prefix) ==
    IF Len(points) = 0 THEN [map |-> EmptyMap, heap |-> heap, out |-> <<>>]
    ELSE stabilizeLoop([map |-> filterMap, heap |-> heap, out |-> <<>>],
                       points, 1, Len(points), cfg, t, prefix)

\* stabilizePoints(points, filterMap, timestamp, prefix)
stabilizePoints(points, filterMap, heap, cfg, t, prefix) ==
    stabilizeLoop([map |-> filterMap, heap |-> heap, out |-> <<>>],
                  points, 1, Len(points), cfg, t, prefix)

\* if (denseData.face && denseData.face.points) ... ; a group is None when undefined.
stabilizeGroup(group, filterMap, heap, cfg, t, prefix) ==
    IF group # None
    THEN stabilizePoints(group[1].points, filterMap, heap, cfg, t, prefix)
    ELSE [map |-> filterMap, heap |-> heap, out |-> <<>>]

\* The body of stabilize(denseData) on the Stabilizer S = {config, faceFilters, bodyFilters,
\* handFilters} with the allocation counter `heap`; `clock` is performance.now().
stabilize_return(S, denseData, timestamp, face, body, hands) ==
    [S |-> [config |-> S.config, faceFilters |-> face.map,
            bodyFilters |-> body.map, handFilters |-> hands.map,
            heap |-> hands.heap],
     out |-> [face |-> Group(face.out), body |-> Group(body.out),
              hands |-> Group(hands.out),
              blendshapes |-> denseData.blendshapes,
              timestamp |-> timestamp, fps |-> denseData.fps,
              totalPoints |-> Len(face.out) + Len(body.out) + Len(hands.out)]]

stabilize_hands(S, denseData, timestamp, face, body) ==
    stabilize_return(S, denseData, timestamp, face, body,
        stabilizeGroup(denseData.hands, S.handFilters, body.heap, S.config,
                       timestamp, "hand_"))

stabilize_body(S, denseData, timestamp, face) ==
    stabilize_hands(S, denseData, timestamp, face,
        stabilizeGroup(denseData.body, S.bodyFilters, face.heap, S.config,
                       timestamp, "body_"))

\* const timestamp = denseData.timestamp || performance.now()
stabilizeFrame(S, denseData, clock) ==
    stabilize_body(S, denseData, OrElse(denseData.timestamp, clock),
        stabilizeGroup(denseData.face, S.faceFilters, S.heap, S.config,
                       OrElse(denseData.timestamp, clock), "face_"))

\* if (!denseData) return null;
stabilize_some(r) == [S |-> r.S, out |-> Some(r.out)]

stabilize(S, denseData, clock) ==
    IF denseData = None THEN [S |-> S, out |-> None]
    ELSE stabilize_some(stabilizeFrame(S, denseData[1], clock))

\* reset() with the hand filters neither reset nor cleared.
Stabilizer_reset_keepsHands(S) ==
    [S EXCEPT !.faceFilters = EmptyMap, !.bodyFilters = EmptyMap]

\* reset(): every filter is reset and the three maps are cleared.
Stabilizer_reset(S) ==
    [S EXCEPT !.faceFilters = EmptyMap, !.bodyFilters = EmptyMap,
              !.handFilters = EmptyMap]

\* The Stabilizer the constructor leaves, for this.config = config.
ConstructedStabilizer(config) ==
    [config |-> config, faceFilters |-> EmptyMap,
     bodyFilters |-> EmptyMap, handFilters |-> EmptyMap, heap |-> 0]

\* new Stabilizer(opts)
NewStabilizer(opts) == ConstructedStabilizer(Stabilizer_config(opts))

(***************************************************************************)
(* WaveMotionEngine                                                        *)
(*                                                                         *)
(* The time step is the constant dt = 1/60: `a / dt` is a * 60 and         *)
(* `a * dt` is a / 60.  A Map is the record {keys, at}: the keys in        *)
(* insertion order (the order forEach visits them) and the entries.        *)
(***************************************************************************)
DefaultStiffness == 300
DefaultDamping == 850
DefaultPropagationSpeed == 150
DefaultWaveDecay == 920
DefaultPhysicsSteps == 2
\* const dt = 1 / 60
FramesPerSecond == 60
\* const microScale = 0.02 (processBody); the literal 0.01 of processHands
bodyMicroScale == 20
handMicroScale == 10
\* Math.floor(idx / 5) * 5 (processBody); Math.floor(idx / 4) * 4 (processHands)
bodyStride == 5
handStride == 4
\* processFace: the factors 0.02, 0.01 and 0.005 of the blendshape influences
browFactor == 20
cheekFactorY == 10
cheekFactorX == 5
jawFactorY == 20
jawFactorX == 10

NoWaveOptions ==
    [stiffness |-> None, damping |-> None, propagationSpeed |-> None,
     waveDecay |-> None, physicsSteps |-> None]

\* WaveMotionEngine constructor: this.config.
WaveMotionEngine_config(opts) ==
    [stiffness |-> OrElse(opts.stiffness, DefaultStiffness),
     damping |-> OrElse(opts.damping, DefaultDamping),
     propagationSpeed |-> OrElse(opts.propagationSpeed, DefaultPropagationSpeed),
     waveDecay |-> OrElse(opts.waveDecay, DefaultWaveDecay),
     physicsSteps |-> OrElse(opts.physicsSteps, DefaultPhysicsSteps)]

\* The engine the constructor leaves, for this.config = config.
ConstructedEngine(config) ==
    [config |-> config, previousData |-> None, velocities |-> EmptyMap]

\* new WaveMotionEngine(opts)
NewWaveMotionEngine(opts) == ConstructedEngine(WaveMotionEngine_config(opts))

\* defineBodyNetwork(): the chains, each a list of <<index, neighbours>> entries in
\* the order of the object literal (`core` is an array, which processBody skips).
network_spine ==
    << <<11, <<12, 23>> >>, <<12, <<11, 24>> >>, <<23, <<11, 24, 25>> >>,
       <<24, <<12, 23, 26>> >> >>
network_leftArm == << <<11, <<13>> >>, <<13, <<11, 15>> >>, <<15, <<13>> >> >>
network_rightArm == << <<12, <<14>> >>, <<14, <<12, 16>> >>, <<16, <<14>> >> >>
network_leftLeg == << <<23, <<25>> >>, <<25, <<23, 27>> >>, <<27, <<25>> >> >>
network_rightLeg == << <<24, <<26>> >>, <<26, <<24, 28>> >>, <<28, <<26>> >> >>

RECURSIVE putEntries(_, _, _)
\* Object.entries(segment).forEach(([idx, neighbors]) => connectionMap[idx] = neighbors)
putEntries(map, entries, i) ==
    IF i > Len(entries) THEN map
    ELSE putEntries((entries[i][1] :> entries[i][2]) @@ map, entries, i + 1)

\* processBody: connectionMap, filled chain after chain.
connectionMap ==
    putEntries(putEntries(putEntries(putEntries(putEntries(EmptyMap,
        network_spine, 1), network_leftArm, 1), network_rightArm, 1),
        network_leftLeg, 1), network_rightLeg, 1)

ZeroVelocity == [vx |-> 0, vy |-> 0, vz |-> 0]

\* calculateVelocity(current, previous, dt); previous is None when undefined.
calculateVelocity(current, previous) ==
    IF previous = None THEN ZeroVelocity
    ELSE [vx |-> (current.x - previous[1].x) * FramesPerSecond,
          vy |-> (current.y - previous[1].y) * FramesPerSecond,
          vz |-> (current.z - previous[1].z) * FramesPerSecond]

\* getVelocityMagnitude(v) < 0.001: on the fixed-point grid a magnitude is below
\* one unit exactly when the three components are 0.
Still(v) == v.vx = 0 /\ v.vy = 0 /\ v.vz = 0

NewMap == [keys |-> <<>>, at |-> EmptyMap]
\* map.set(k, v)
Put(m, k, v) ==
    [keys |-> IF k \in DOMAIN m.at THEN m.keys ELSE Append(m.keys, k),
     at |-> (k :> v) @@ m.at]
\* map.get(k) || { vx: 0, vy: 0, vz: 0 }
GetOrZero(m, k) == IF k \in DOMAIN m.at THEN m.at[k] ELSE ZeroVelocity

\* JavaScript truthiness of an optional boolean property.
Truthy(o) == o = Some(TRUE)

\* currentNeighborV + velocity * propagationFactor, per component
attenuated(currentNeighborV, velocity, propagationFactor) ==
    [vx |-> currentNeighborV.vx + (velocity.vx * propagationFactor) \div Scale,
     vy |-> currentNeighborV.vy + (velocity.vy * propagationFactor) \div Scale,
     vz |-> currentNeighborV.vz + (velocity.vz * propagationFactor) \div Scale]

RECURSIVE propagateTo(_, _, _, _, _)
\* for (const neighborIdx of neighbors) propagatedVelocities.set(neighborIdx, ...)
propagateTo(propagated, velocity, neighbors, j, propagationFactor) ==
    IF j > Len(neighbors) THEN propagated
    ELSE propagateTo(Put(propagated, neighbors[j],
                         attenuated(GetOrZero(propagated, neighbors[j]), velocity,
                                    propagationFactor)),
                     velocity, neighbors, j + 1, propagationFactor)

\* One call of the callback of velocities.forEach((velocity, idx) => ...)
propagateOne(propagated, velocities, connections, i, propagationFactor) ==
    IF /\ velocities.keys[i] \in DOMAIN connections
       /\ ~Still(velocities.at[velocities.keys[i]])
    THEN propagateTo(propagated, velocities.at[velocities.keys[i]],
                     connections[velocities.keys[i]], 1, propagationFactor)
    ELSE propagated

RECURSIVE propagateFrom(_, _, _, _, _, _)
\* velocities.forEach, for the keys lo..hi in insertion order (lower half first;
\* Len(propagated.keys) < 0 has the map so far evaluated before the next key)
propagateFrom(propagated, velocities, connections, lo, hi, propagationFactor) ==
    IF lo > hi \/ Len(propagated.keys) < 0 THEN propagated
    ELSE IF lo = hi
    THEN propagateOne(propagated, velocities, connections, lo, propagationFactor)
    ELSE propagateFrom(
             propagateFrom(propagated, velocities, connections, lo, (lo + hi) \div 2,
                           propagationFactor),
             velocities, connections, ((lo + hi) \div 2) + 1, hi, propagationFactor)

\* propagateMotion(points, velocities, connections, propagationFactor)
propagateMotion(velocities, connections, propagationFactor) ==
    propagateFrom(velocities, velocities, connections, 1, Len(velocities.keys),
                  propagationFactor)

\* processBody: currentVelocities.set(point.originalIndex, velocity), where prevPoint
\* is this.previousData?.body?.points?.[idx]
currentVelocity(m, points, prevPoints, i) ==
    IF points[i].originalIndex # None
    THEN Put(m, points[i].originalIndex[1],
             calculateVelocity(points[i], At(prevPoints, i - 1)))
    ELSE m

RECURSIVE currentVelocities(_, _, _, _, _)
\* processed.forEach((point, idx) => ...), for the points lo..hi (lower half first;
\* Len(m.keys) < 0 has the map so far evaluated before the next point)
currentVelocities(m, points, prevPoints, lo, hi) ==
    IF lo > hi \/ Len(m.keys) < 0 THEN m
    ELSE IF lo = hi THEN currentVelocity(m, points, prevPoints, lo)
    ELSE currentVelocities(
             currentVelocities(m, points, prevPoints, lo, (lo + hi) \div 2),
             points, prevPoints, ((lo + hi) \div 2) + 1, hi)

damped(velocity, damping) ==
    [vx |-> (velocity.vx * damping) \div Scale,
     vy |-> (velocity.vy * damping) \div Scale,
     vz |-> (velocity.vz * damping) \div Scale]

\* processBody: this.velocities.set(`body_${point.originalIndex}`, velocity * damping)
storeVelocity(velocities, points, propagated, i, damping) ==
    IF /\ points[i].originalIndex # None
       /\ points[i].originalIndex[1] \in DOMAIN propagated.at
       /\ ~Truthy(points[i].interpolated)
    THEN (<<"body_", points[i].originalIndex[1]>>
             :> damped(propagated.at[points[i].originalIndex[1]], damping))
         @@ velocities
    ELSE velocities

RECURSIVE storeVelocities(_, _, _, _, _, _)
\* processed.forEach((point, idx) => ...), for the points lo..hi (lower half first;
\* the test on DOMAIN velocities has the map so far evaluated before the next point)
storeVelocities(velocities, points, propagated, lo, hi, damping) ==
    IF lo > hi \/ Cardinality(DOMAIN velocities) < 0 THEN velocities
    ELSE IF lo = hi THEN storeVelocity(velocities, points, propagated, lo, damping)
    ELSE storeVelocities(
             storeVelocities(velocities, points, propagated, lo, (lo + hi) \div 2, damping),
             points, propagated, ((lo + hi) \div 2) + 1, hi, damping)

\* point.x += nearbyVelocity.vx * dt * microScale (and y, z)
bodyNudged(point, nearbyVelocity) ==
    [point EXCEPT
        !.x = @ + ((nearbyVelocity.vx \div FramesPerSecond) * bodyMicroScale) \div Scale,
        !.y = @ + ((nearbyVelocity.vy \div FramesPerSecond) * bodyMicroScale) \div Scale,
        !.z = @ + ((nearbyVelocity.vz \div FramesPerSecond) * bodyMicroScale) \div Scale]

\* this.velocities.get(`body_${Math.floor(idx / 5) * 5}`), idx from 0
nearbyKey(idx) == <<"body_", (idx \div bodyStride) * bodyStride>>

\* processBody: micro-motion of the interpolated points, with the stored velocities.
bodyMicroMotion(points, velocities) ==
    [velocities |-> velocities,
     points |-> [i \in 1..Len(points) |->
                    IF Truthy(points[i].interpolated) /\ nearbyKey(i - 1) \in DOMAIN velocities
                    THEN bodyNudged(points[i], velocities[nearbyKey(i - 1)])
                    ELSE points[i]]]

\* processBody(bodyPoints, dt) on the engine E: the new velocity cache and the points.
processBody(E, bodyPoints) ==
    IF Len(bodyPoints) = 0 THEN [velocities |-> E.velocities, points |-> bodyPoints]
    ELSE bodyMicroMotion(bodyPoints,
             storeVelocities(E.velocities, bodyPoints,
                 propagateMotion(
                     currentVelocities(NewMap, bodyPoints,
                         IF E.previousData = None THEN <<>>
                         ELSE E.previousData[1].body.points, 1, Len(bodyPoints)),
                     connectionMap, E.config.propagationSpeed),
                 1, Len(bodyPoints), E.config.damping))

RECURSIVE scoreOf(_, _, _)
\* blendshapeMap[name] || 0: the score of the last blendshape of that name
scoreOf(blendshapes, name, i) ==
    IF i = 0 THEN 0
    ELSE IF blendshapes[i].categoryName = name
         THEN blendshapes[i].score
         ELSE scoreOf(blendshapes, name, i - 1)
score(blendshapes, name) == scoreOf(blendshapes, name, Len(blendshapes))

\* processFace: the influence of the blendshapes on one point, by its region.
expressed(point, bs) ==
    IF point.region = Some("leftEyebrow")
    THEN [point EXCEPT !.y = @ - ((score(bs, "browOuterUpLeft")
                                   - score(bs, "browDownLeft")) * browFactor) \div Scale]
    ELSE IF point.region = Some("rightEyebrow")
    THEN [point EXCEPT !.y = @ - ((score(bs, "browOuterUpRight")
                                   - score(bs, "browDownRight")) * browFactor) \div Scale]
    ELSE IF point.region = Some("leftCheek")
    THEN [point EXCEPT !.y = @ - (score(bs, "mouthSmileLeft") * cheekFactorY) \div Scale,
                       !.x = @ - (score(bs, "mouthSmileLeft") * cheekFactorX) \div Scale]
    ELSE IF point.region = Some("rightCheek")
    THEN [point EXCEPT !.y = @ - (score(bs, "mouthSmileRight") * cheekFactorY) \div Scale,
                       !.x = @ + (score(bs, "mouthSmileRight") * cheekFactorX) \div Scale]
    ELSE IF point.region = Some("jawline")
    THEN [point EXCEPT !.y = @ + (score(bs, "jawOpen") * jawFactorY) \div Scale,
                       !.x = @ + ((score(bs, "jawRight") - score(bs, "jawLeft"))
                                  * jawFactorX) \div Scale]
    ELSE point

\* processFace(facePoints, blendshapes, dt)
processFace(facePoints, blendshapes) ==
    IF Len(facePoints) = 0 \/ Len(blendshapes) = 0 THEN facePoints
    ELSE [i \in 1..Len(facePoints) |-> expressed(facePoints[i], blendshapes)]

\* point.x += velocity.vx * dt * 0.01; point.y += velocity.vy * dt * 0.01
handNudged(point, velocity) ==
    [point EXCEPT
        !.x = @ + ((velocity.vx \div FramesPerSecond) * handMicroScale) \div Scale,
        !.y = @ + ((velocity.vy \div FramesPerSecond) * handMicroScale) \div Scale]

\* this.previousData?.hands?.points?.[Math.floor(idx / 4) * 4], idx from 0
handBase(prevPoints, idx) == At(prevPoints, (idx \div handStride) * handStride)

\* processHands(handPoints, dt)
processHands(E, handPoints) ==
    [i \in 1..Len(handPoints) |->
        IF /\ Truthy(handPoints[i].interpolated)
           /\ E.previousData # None
           /\ handBase(E.previousData[1].hands.points, i - 1) # None
        THEN handNudged(handPoints[i],
                 calculateVelocity(handPoints[i],
                                   handBase(E.previousData[1].hands.points, i - 1)))
        ELSE handPoints[i]]

\* The processed arrays hold the point objects of stabilizedData, which the three
\* process* methods change in place: this.previousData = stabilizedData keeps the
\* changed points, the same ones the returned frame holds.
process_return(E, stabilizedData, face, body, hands) ==
    [E |-> [E EXCEPT !.velocities = body.velocities,
                     !.previousData =
                         Some([stabilizedData EXCEPT !.face.points = face,
                                                     !.body.points = body.points,
                                                     !.hands.points = hands])],
     out |-> Some([face |-> [points |-> face, count |-> stabilizedData.face.count],
                   body |-> [points |-> body.points, count |-> stabilizedData.body.count],
                   hands |-> [points |-> hands, count |-> stabilizedData.hands.count],
                   blendshapes |-> stabilizedData.blendshapes,
                   timestamp |-> stabilizedData.timestamp,
                   fps |-> stabilizedData.fps,
                   totalPoints |-> stabilizedData.totalPoints])]

\* process(stabilizedData); stabilizedData is None for null.
process(E, stabilizedData) ==
    IF stabilizedData = None THEN [E |-> E, out |-> None]
    ELSE process_return(E, stabilizedData[1],
             processFace(stabilizedData[1].face.points, stabilizedData[1].blendshapes),
             processBody(E, stabilizedData[1].body.points),
             processHands(E, stabilizedData[1].hands.points))

\* reset() with the velocity cache left as it is.
WaveMotionEngine_reset_keepsVelocities(E) == [E EXCEPT !.previousData = None]

\* reset()
WaveMotionEngine_reset(E) == [E EXCEPT !.previousData = None, !.velocities = EmptyMap]

(***************************************************************************)
(* DenseTracker and the application loop                                   *)
(***************************************************************************)
\* The number of calls of each stage.
NoCalls == [densify |-> 0, stabilize |-> 0, process |-> 0]

\* if (video.readyState < 2) return
HaveCurrentData == 2

\* detect(videoElement) without the test for an unchanged video time.
detect_everyTick(T, V, clock, found) ==
    [T |-> [T EXCEPT !.lastVideoTime = V.currentTime],
     out |-> Some([found EXCEPT !.timestamp = clock])]

\* DenseTracker.detect(videoElement) on the tracker T and the video V; `found` is what
\* the three landmarkers return for the frame, `clock` is performance.now().
detect(T, V, clock, found) ==
    IF V.currentTime = T.lastVideoTime THEN [T |-> T, out |-> None]
    ELSE [T |-> [T EXCEPT !.lastVideoTime = V.currentTime],
          out |-> Some([found EXCEPT !.timestamp = clock])]

\* What one run of loop() did: the stages it called and what they returned.
LoopResult(op, T, rawResults, den, S, stabilized, E, processed, calls) ==
    [op |-> op, tracker |-> T, raw |-> rawResults, dense |-> den, S |-> S,
     stabilized |-> stabilized, E |-> E, processed |-> processed, calls |-> calls]

\* const processedData = this.waveEngine.process(stabilizedData)
loop_processed(d, den, st, pr) ==
    LoopResult("ran", d.T, d.out, Some(den), st.S, st.out, pr.E, pr.out,
               [densify |-> 1, stabilize |-> 1, process |-> 1])

\* const stabilizedData = this.stabilizer.stabilize(denseData)
loop_stabilized(E, d, den, st) == loop_processed(d, den, st, process(E, st.out))

\* const denseData = this.densifier.densify(rawResults); if (!denseData) return;
\* an exception of densify leaves loop() at this point.
loop_densified(S, E, clock, d, den) ==
    IF den.threw \/ den.out = None
    THEN LoopResult(IF den.threw THEN "threw" ELSE "nothing", d.T, d.out, Some(den),
                    S, None, E, None, [densify |-> 1, stabilize |-> 0, process |-> 0])
    ELSE loop_stabilized(E, d, den, stabilize(S, den.out, clock))

\* const rawResults = this.tracker.detect(video); if (!rawResults) return
loop_detected(S, E, clock, d) ==
    IF d.out = None
    THEN LoopResult("skip", d.T, None, None, S, None, E, None, NoCalls)
    ELSE loop_densified(S, E, clock, d, densify(d.out))

\* loop() of a running application.
loop(T, V, S, E, clock, found) ==
    IF V.readyState < HaveCurrentData
    THEN LoopResult("wait", T, None, None, S, None, E, None, NoCalls)
    ELSE loop_detected(S, E, clock, detect(T, V, clock, found))

(***************************************************************************)
(* State                                                                   *)
(***************************************************************************)
VARIABLES
    stabilizer,   \* the Stabilizer object: config, the three filter maps, heap
    now,          \* performance.now(), in ms
    frames,       \* number of stabilize calls made
    measured,     \* number of stabilize calls whose frame held a point
    call,         \* the last call: op, input, output, and the state before it
    track,        \* per filter id: in which calls since its creation the id was
                  \* present (seen), and the filter as the last such call left it (held)
    fresh,        \* after reset(): a newly constructed Stabilizer fed the same frames
    raw,          \* the tracking results last given to the Densifier
    dense,        \* what densify made of them: {threw, out}
    made,         \* the last call of an interpolation method of the Densifier
    engine,       \* the WaveMotionEngine object: config, previousData, velocities
    wave,         \* the last call of the engine: op, input, output, the state before
    freshEngine,  \* after reset(): a newly constructed engine fed the same frames
    tracker,      \* the DenseTracker object: lastVideoTime
    video,        \* the video element: readyState, currentTime
    running,      \* isRunning of the application
    tick,         \* the last run of loop(): what it did, the state before, the counts
    supplied,     \* the options the application gave the two constructors
    filtered,     \* a Point3DFilter of its own: the filter, its last call of filter()
    game          \* the MimicGame object G, its timers and callbacks, its last call

stabilizerVars == <<stabilizer, now, frames, measured, call, track, fresh>>
densifierVars == <<raw, dense, made>>
engineVars == <<engine, wave, freshEngine>>
loopVars == <<tracker, video, running, tick>>
vars == <<stabilizer, now, frames, measured, call, track, fresh, raw, dense, made, engine,
          wave, freshEngine, tracker, video, running, tick, supplied,
          filtered, game>>

(***************************************************************************)
(* Inputs                                                                  *)
(***************************************************************************)
MaxFrames == 3
MaxTrackFrames == 7
MaxOccFrames == 13
MaxOccMeasured == 2

\* Time between two processed video frames, in ms (60 and 30 frames a second).
FramePeriods == {17, 33}
TrackPeriods == {17}

ValA == Landmark(500, 500, 0, Some(1000))
ValB == Landmark(600, 400, -50, None)
ValC == Landmark(300, 700, 20, Some(0))

\* A tracked point as the Densifier emits it, and an interpolated one.
Original(v, idx, region) ==
    [v EXCEPT !.originalIndex = Some(idx), !.region = Some(region),
              !.interpolated = Some(FALSE)]
Interpolated(v, region) ==
    [v EXCEPT !.visibility = Some(OrElse(v.visibility, Scale)),
              !.region = Some(region), !.interpolated = Some(TRUE)]

\* hasTs: whether the frame carries a timestamp (set to the clock when it is fed).
DenseFrame(face, body, hands, hasTs) ==
    [face |-> face, body |-> body, hands |-> hands, blendshapes |-> <<>>,
     timestamp |-> IF hasTs THEN Some(0) ELSE None, fps |-> 60]

NoPointsFrame == DenseFrame(None, Some(Group(<<>>)), None, TRUE)

FramePool ==
    { NoPointsFrame,
      DenseFrame(Some(Group(<<Original(ValC, 0, "face")>>)), None, None, TRUE),
      DenseFrame(Some(Group(<<Original(ValA, 0, "face"), Original(ValB, 1, "face")>>)),
                 Some(Group(<<Original(ValC, 0, "body"), Interpolated(ValA, "arm")>>)),
                 None, TRUE),
      DenseFrame(Some(Group(<<Original(ValC, 1, "face")>>)), None,
                 Some(Group(<<Original(ValB, 0, "hand_Left")>>)), TRUE),
      DenseFrame(None,
                 Some(Group(<<Original(ValB, 0, "body"), Interpolated(ValC, "arm")>>)),
                 Some(Group(<<Original(ValA, 0, "hand_Left"),
                              Original(ValB, 0, "hand_Right")>>)), TRUE),
      DenseFrame(Some(Group(<<Original(ValB, 0, "face"), Original(ValA, 1, "face")>>)),
                 Some(Group(<<>>)),
                 Some(Group(<<Original(ValC, 0, "hand_Left")>>)), FALSE) }

\* One landmark, (face, 13), tracked or lost.
TrackPool ==
    { NoPointsFrame,
      DenseFrame(Some(Group(<<Original(ValA, 13, "face")>>)), None, None, TRUE),
      DenseFrame(Some(Group(<<Original(ValB, 13, "face")>>)), None, None, TRUE) }

OptionPool ==
    { NoOptions,
      [NoOptions EXCEPT !.minCutoff = Some(800), !.beta = Some(5),
                        !.processNoise = Some(5), !.measurementNoise = Some(50)],
      [NoOptions EXCEPT !.useKalman = Some(FALSE)] }

(***************************************************************************)
(* Observations                                                            *)
(***************************************************************************)
RECURSIVE GroupIds(_, _, _)
GroupIds(points, i, prefix) ==
    IF i > Len(points) THEN {}
    ELSE {PointId(prefix, points[i], i)} \cup GroupIds(points, i + 1, prefix)

\* The filter ids a frame addresses.
FrameIds(denseData) ==
    (IF denseData.face # None THEN GroupIds(denseData.face[1].points, 1, "face_") ELSE {})
    \cup (IF denseData.body # None THEN GroupIds(denseData.body[1].points, 1, "body_") ELSE {})
    \cup (IF denseData.hands # None THEN GroupIds(denseData.hands[1].points, 1, "hand_") ELSE {})

\* The three filter maps as one (the prefixes keep the keys apart).
Filters(S) == S.faceFilters @@ S.bodyFilters @@ S.handFilters

(***************************************************************************)
(* MimicGame                                                               *)
(*                                                                         *)
(* G is the object. Around it: `intervals`, the timers setInterval started *)
(* and clearInterval has not cleared; `timeouts`, the number of pending    *)
(* setTimeout(nextTarget) callbacks; `scheduled`, whether a call of        *)
(* gameLoop is pending (requestAnimationFrame); `now`, performance.now().  *)
(***************************************************************************)
\* this.expressions, indexed from 0
expressions == <<"Neutral", "Smile", "Surprise", "Kiss", "Hands Up!">>
ExpressionIndices == 0..(Len(expressions) - 1)
\* this.expressions.findIndex(e => e.name === 'Hands Up!')
handsUpIndex == CHOOSE i \in ExpressionIndices : expressions[i + 1] = "Hands Up!"
matchThreshold == 1000
RoundTime == 30
HalfTime == 15
ScoreStep == 10

\* constructor()
NewMimicGame ==
    [score |-> 0, timeLeft |-> RoundTime, isGameOver |-> FALSE, timerInterval |-> None,
     currentTarget |-> None, targetStartTime |-> 0, matchDuration |-> 0,
     isMatching |-> FALSE, hasHandedUpThisRound |-> FALSE, snapshot |-> None,
     currentExpressionIndex |-> 0, expressionHistory |-> <<>>]

\* The indices on which the do ... while loop of nextTarget ends.
Accepted(G) ==
    {nextIndex \in ExpressionIndices :
        ~ \/ (nextIndex = handsUpIndex /\ G.hasHandedUpThisRound)
          \/ (Len(G.expressionHistory) > 0
                /\ nextIndex = G.expressionHistory[Len(G.expressionHistory)])}

\* nextTarget() once this.currentExpressionIndex is set
nextTarget_present(G) ==
    [G EXCEPT !.hasHandedUpThisRound = @ \/ G.currentExpressionIndex = handsUpIndex,
              !.expressionHistory = Append(@, G.currentExpressionIndex),
              !.currentTarget = Some(G.currentExpressionIndex),
              !.isMatching = FALSE, !.matchDuration = 0]

\* nextTarget(); nextIndex is the index Math.random() gives when the loop ends.
nextTarget(G, nextIndex) ==
    nextTarget_present(
        [G EXCEPT !.currentExpressionIndex =
            IF G.timeLeft < HalfTime /\ ~G.hasHandedUpThisRound THEN handsUpIndex
            ELSE nextIndex])

\* onSuccess() that leaves the target in place.
onSuccess_keepsTarget(G) ==
    IF G.isGameOver \/ G.currentTarget = None THEN G
    ELSE [G EXCEPT !.isMatching = FALSE, !.matchDuration = 0, !.score = @ + ScoreStep]

\* onSuccess(): the changes to the object (the timeout is set by the caller's action)
onSuccess(G) ==
    IF G.isGameOver \/ G.currentTarget = None THEN G
    ELSE [G EXCEPT !.currentTarget = None, !.isMatching = FALSE, !.matchDuration = 0,
                   !.score = @ + ScoreStep]

\* endGame()
endGame(G) == [G EXCEPT !.isGameOver = TRUE, !.currentTarget = None]

\* clearInterval(G.timerInterval)
clearInterval(intervals, G) ==
    IF G.timerInterval = None THEN intervals ELSE intervals \ {G.timerInterval[1]}

\* startTimer(): the timer `id` replaces the one this.timerInterval names.
startTimer(e, id) ==
    [e EXCEPT !.G.timeLeft = RoundTime, !.G.timerInterval = Some(id),
              !.intervals = clearInterval(e.intervals, e.G) \cup {id},
              !.timers = @ + 1]

\* The callback of setInterval in startTimer.
timerCallback(e) ==
    IF e.G.isGameOver
    THEN [e EXCEPT !.intervals = clearInterval(e.intervals, e.G)]
    ELSE IF e.G.timeLeft - 1 <= 0
    THEN [e EXCEPT !.G = endGame([e.G EXCEPT !.timeLeft = @ - 1]),
                   !.intervals = clearInterval(e.intervals, e.G)]
    ELSE [e EXCEPT !.G.timeLeft = @ - 1]

\* startGame()
startGame(e, nextIndex) ==
    startTimer([e EXCEPT !.G = nextTarget([e.G EXCEPT !.score = 0, !.timeLeft = RoundTime,
                                                     !.isGameOver = FALSE,
                                                     !.snapshot = None,
                                                     !.hasHandedUpThisRound = FALSE,
                                                     !.expressionHistory = <<>>],
                                          nextIndex)],
               e.timers + 1)

\* restartGame()
restartGame_next(e, nextIndex) == [e EXCEPT !.G = nextTarget(e.G, nextIndex)]
restartGame(e, nextIndex) ==
    restartGame_next(startTimer([e EXCEPT !.G.score = 0, !.G.isGameOver = FALSE],
                                e.timers + 1),
                     nextIndex)

\* gameLoop, the branch of a match: the match is timed, and scored at the threshold
\* (captureSnapshot() for 'Hands Up!' without a snapshot).
gameLoop_timed(G, t) ==
    IF t - G.targetStartTime >= matchThreshold
    THEN onSuccess([G EXCEPT !.matchDuration = t - G.targetStartTime,
                             !.snapshot = IF G.currentTarget = Some(handsUpIndex)
                                             /\ G.snapshot = None
                                          THEN Some("image/png") ELSE @])
    ELSE [G EXCEPT !.matchDuration = t - G.targetStartTime]

gameLoop_match(G, t) ==
    gameLoop_timed(IF G.isMatching THEN G
                   ELSE [G EXCEPT !.isMatching = TRUE, !.targetStartTime = t], t)

\* gameLoop() at time t; result is None, or says whether a face was found and
\* whether the detector of the target, if there is one, matches it.
gameLoop(e, result, t) ==
    IF result = None \/ ~result[1].face
    THEN [e EXCEPT !.scheduled = TRUE, !.now = t]
    ELSE IF e.G.isGameOver
    THEN [e EXCEPT !.scheduled = FALSE, !.now = t]
    ELSE IF e.G.currentTarget # None /\ result[1].match
    THEN [e EXCEPT !.G = gameLoop_match(e.G, t),
                   !.timeouts = IF gameLoop_match(e.G, t).score # e.G.score
                                THEN @ + 1 ELSE @,
                   !.scheduled = TRUE, !.now = t]
    ELSE [e EXCEPT !.G.isMatching = FALSE, !.G.matchDuration = 0,
                   !.scheduled = TRUE, !.now = t]

\* The callback of setTimeout in onSuccess: if (!this.isGameOver) this.nextTarget()
nextTargetCallback(e, nextIndex) ==
    [e EXCEPT !.timeouts = @ - 1,
              !.G = IF e.G.isGameOver THEN e.G ELSE nextTarget(e.G, nextIndex)]

\* new MimicGame() and init(), which calls gameLoop(). `timers` counts the timers
\* ever started, `started` tells whether startGame() ran; `last` describes the last
\* call and `round` what happened in the round: the successes and the targets
\* presented.
NoRound == [successes |-> 0, hits |-> 0, presented |-> <<>>, n |-> 0]
NewGame ==
    [G |-> NewMimicGame, intervals |-> {}, timers |-> 0, timeouts |-> 0,
     scheduled |-> TRUE, now |-> 0, started |-> FALSE, loops |-> 0,
     last |-> [op |-> "new", pre |-> NewMimicGame, next |-> FALSE, due |-> FALSE],
     round |-> NoRound]

(***************************************************************************)
(* Actions                                                                 *)
(***************************************************************************)
\* The application after its constructor and init(): new Stabilizer(options),
\* new WaveMotionEngine(waveOptions), new DenseTracker(), the loop started.
Constructed(options, waveOptions) ==
    /\ stabilizer = NewStabilizer(options)
    /\ now = 0
    /\ frames = 0
    /\ measured = 0
    /\ call = [op |-> "new", input |-> None, output |-> None, pre |-> None,
               preTrack |-> EmptyMap]
    /\ track = EmptyMap
    /\ fresh = None
    /\ dense = None
    /\ made = None
    /\ engine = NewWaveMotionEngine(waveOptions)
    /\ supplied = [stabilizer |-> options, engine |-> waveOptions]
    /\ filtered = [f |-> NewPoint3DFilter(0), op |-> "new", point |-> None, out |-> None,
                   pre |-> None, held |-> None, from |-> None, t |-> 0, n |-> 0]
    /\ game = NewGame
    /\ wave = [op |-> "new", input |-> None, output |-> None, pre |-> None, n |-> 0]
    /\ freshEngine = None
    /\ tracker = [lastVideoTime |-> -1]
    /\ video = [readyState |-> 1, currentTime |-> 0]
    /\ running = TRUE
    /\ tick = [op |-> "new", pre |-> None, video |-> video, calls |-> NoCalls,
               ran |-> <<>>, n |-> 0]

Init ==
    /\ \E opts \in OptionPool : Constructed(opts, NoWaveOptions)
    /\ raw = None

\* this.stabilizer.stabilize(denseData), `period` ms after the previous call.
StabilizeEffect(denseData, clock, ids, r) ==
    /\ stabilizer' = r.S
    /\ now' = clock
    /\ frames' = frames + 1
    /\ measured' = IF ids = {} THEN measured ELSE measured + 1
    /\ call' = [op |-> "stabilize", input |-> Some(denseData), output |-> r.out,
                pre |-> Some(stabilizer), preTrack |-> track]
    /\ track' = [id \in DOMAIN Filters(r.S) |->
                    [seen |-> IF id \in DOMAIN track
                              THEN Append(track[id].seen, id \in ids)
                              ELSE <<TRUE>>,
                     held |-> IF id \in ids THEN Filters(r.S)[id] ELSE track[id].held]]
    /\ fresh' = IF fresh = None THEN None
                ELSE Some(stabilize(fresh[1].S, Some(denseData), clock))

StabilizeCall(denseData, clock) ==
    StabilizeEffect(denseData, clock, FrameIds(denseData),
                    stabilize(stabilizer, Some(denseData), clock))

StabilizeStep(frame, period) ==
    StabilizeCall([frame EXCEPT !.timestamp = IF @ = None THEN None
                                             ELSE Some(now + period)],
                  now + period)

Stabilize ==
    /\ frames < MaxFrames
    /\ \E frame \in FramePool, period \in FramePeriods : StabilizeStep(frame, period)
    /\ UNCHANGED <<supplied, filtered, game, densifierVars, engineVars, loopVars>>

\* this.stabilizer.reset()
Reset ==
    /\ stabilizer' = Stabilizer_reset(stabilizer)
    /\ call' = [op |-> "reset", input |-> None, output |-> None,
                pre |-> Some(stabilizer), preTrack |-> track]
    /\ track' = EmptyMap
    /\ fresh' = Some([S |-> ConstructedStabilizer(stabilizer.config), out |-> None])
    /\ UNCHANGED <<supplied, filtered, game, now, frames, measured, densifierVars, engineVars, loopVars>>

Next == Stabilize \/ Reset

Spec == Init /\ [][Next]_vars

\* One landmark followed over MaxTrackFrames frames.
TrackStabilize ==
    /\ frames < MaxTrackFrames
    /\ \E frame \in TrackPool, period \in TrackPeriods : StabilizeStep(frame, period)
    /\ UNCHANGED <<supplied, filtered, game, densifierVars, engineVars, loopVars>>

SpecTrack == Init /\ [][TrackStabilize]_vars

\* One landmark seen in at most MaxOccMeasured of MaxOccFrames frames.
OccStabilize ==
    /\ frames < MaxOccFrames
    /\ \E frame \in TrackPool, period \in TrackPeriods :
          /\ FrameIds(frame) = {} \/ measured < MaxOccMeasured
          /\ StabilizeStep(frame, period)
    /\ UNCHANGED <<supplied, filtered, game, densifierVars, engineVars, loopVars>>

SpecOcc == Init /\ [][OccStabilize]_vars

\* Frames that carry timestamps of their own, in any order: repeated, decreasing.
Timestamps == {17, 34, 51}
MaxStampedFrames == 4
StampedStabilize ==
    /\ frames < MaxStampedFrames
    /\ \E frame \in TrackPool, timestamp \in Timestamps, period \in TrackPeriods :
          StabilizeCall([frame EXCEPT !.timestamp = Some(timestamp)], now + period)
    /\ UNCHANGED <<supplied, filtered, game, densifierVars, engineVars, loopVars>>

SpecStamped == Init /\ [][StampedStabilize]_vars

\* A Point3DFilter called by itself, with and without a point.
MaxFilterCalls == 6
FilterPoints == {Some(ValA), Some(ValB), None}

\* filter.filter(point, timestamp), `period` ms after the call before
FilterCall ==
    /\ filtered.n < MaxFilterCalls
    /\ \E point \in FilterPoints, period \in TrackPeriods :
          LET r == Point3DFilter_filter(filtered.f, stabilizer.config, point,
                                        filtered.t + period)
          IN  filtered' = [f |-> r.f, op |-> "filter", point |-> point, out |-> r.out,
                           pre |-> Some(filtered.f),
                           held |-> IF point = None THEN filtered.held ELSE Some(r.f),
                           from |-> filtered.held,
                           t |-> filtered.t + period, n |-> filtered.n + 1]
    /\ UNCHANGED <<supplied, game, stabilizerVars, densifierVars, engineVars, loopVars>>

SpecFilter == Init /\ [][FilterCall]_vars

\* new Stabilizer({minCutoff: Infinity}), with and without the Kalman stage.
HighCutoffPool ==
    { [NoOptions EXCEPT !.minCutoff = Some(Infinity)],
      [NoOptions EXCEPT !.minCutoff = Some(Infinity), !.useKalman = Some(FALSE)] }

InitHighCutoff ==
    /\ \E opts \in HighCutoffPool : Constructed(opts, NoWaveOptions)
    /\ raw = None

SpecHighCutoff == InitHighCutoff /\ [][TrackStabilize]_vars

(***************************************************************************)
(* The Densifier on one set of tracking results                            *)
(***************************************************************************)
\* Landmarks per group of the three MediaPipe models.
FaceLandmarks == 468
PoseLandmarks == 33
HandLandmarks == 21

\* Landmark i of a list, for three ways of filling the lists: the coordinates depend
\* on the index; the visibility is missing, 0 or 0.9.
RawLandmark(i, pattern) ==
    Landmark(100 + ((i * (5 + 2 * pattern)) % 800),
             100 + ((i * (11 + 2 * pattern)) % 800),
             ((i + pattern) % 5) * 10 - 20,
             IF (i + pattern) % 3 = 0 THEN None
             ELSE IF (i + pattern) % 3 = 1 THEN Some(0) ELSE Some(900))
RawList(n, pattern) == [i \in 1..n |-> RawLandmark(i, pattern)]
Patterns == {1, 2, 3}

RawFace(n, pattern) ==
    IF n = 0 THEN None
    ELSE Some([landmarks |-> RawList(n, pattern),
               blendshapes |-> IF pattern = 1 THEN <<>>
                               ELSE <<[categoryName |-> "jawOpen", score |-> 100 * pattern],
                                      [categoryName |-> "browDownLeft", score |-> 400],
                                      [categoryName |-> "mouthSmileRight", score |-> 600]>>])
RawPose(n, pattern) ==
    IF n = 0 THEN None ELSE Some([landmarks |-> RawList(n, pattern)])
\* sizes: the number of landmarks of each detected hand.
RawHands(sizes, pattern) ==
    IF sizes = <<>> THEN None
    ELSE Some([landmarks |-> [h \in 1..Len(sizes) |-> RawList(sizes[h], pattern + h)],
               handedness |-> IF pattern = 1 THEN <<"Left">> ELSE <<"Right", "Left">>])

TrackingResults(face, pose, hands) ==
    [face |-> face, pose |-> pose, hands |-> hands, timestamp |-> 0, fps |-> 60]

\* The face mesh with the ten iris landmarks faceRegions refers to.
FaceLandmarksWithIris == 478

\* What the three models return, and lists that lack landmarks the tables refer to.
FaceSizes == {0, FaceLandmarks, FaceLandmarksWithIris, 400}
PoseSizes == {0, PoseLandmarks, 20}
HandSizes == {<<>>, <<HandLandmarks>>, <<HandLandmarks, HandLandmarks>>, <<10>>}
RawPool ==
    {TrackingResults(RawFace(f, p), RawPose(b, p), RawHands(h, p)) :
        f \in FaceSizes, b \in PoseSizes, h \in HandSizes, p \in Patterns}

InitDensify ==
    /\ Constructed(NoOptions, NoWaveOptions)
    /\ raw \in {Some(r) : r \in RawPool}

\* this.densifier.densify(rawResults)
Densify ==
    /\ dense = None
    /\ dense' = Some(densify(raw))
    /\ UNCHANGED <<supplied, filtered, game, stabilizerVars, raw, made, engineVars, loopVars>>

SpecDensify == InitDensify /\ [][Densify]_vars

(***************************************************************************)
(* The interpolation methods of the Densifier, called on their own.        *)
(* The coordinates are multiples of CoordinateStep and the subdivision     *)
(* counts and grid sizes divide Scale, so that t = i / subdivisions and    *)
(* every blend the methods compute is a number of the model without        *)
(* rounding.                                                               *)
(***************************************************************************)
MaxGeometryPatterns == 6
CoordinateStep == Scale \div 10

\* Landmark i of the list `pattern`; the visibility is undefined, 0, 0.5 or 1.
GeometryLandmark(i, pattern) ==
    Landmark(CoordinateStep * ((i * pattern + 2 * i) % 10),
             CoordinateStep * ((3 * i + pattern) % 10),
             CoordinateStep * (((i + 2 * pattern) % 5) - 2),
             IF (i + pattern) % 4 = 0 THEN None
             ELSE Some(500 * (((i + pattern) % 4) - 1)))
GeometryList(pattern) == [i \in 1..4 |-> GeometryLandmark(i, pattern)]
GeometryPool == {GeometryList(pattern) : pattern \in 1..MaxGeometryPatterns}

SegmentCounts == {1, 2, 4, 5}
ContourCounts == {0, 1, 3, 4}
GridSizes == {1, 2, 5}
LayerCounts == {1, 2, 3}
IndexLists == {<<0, 1, 2, 3>>, <<2, 0>>, <<1>>, <<3, 1, 0>>}
CornerLists == {<<0, 1, 2, 3>>, <<3, 0, 1, 2>>, <<1, 1, 2, 0>>}

InitGeometry ==
    /\ Constructed(NoOptions, NoWaveOptions)
    /\ raw \in {Some(TrackingResults(None, Some([landmarks |-> l]), None)) :
                    l \in GeometryPool}

\* The landmark list the methods are called on.
Given == raw[1].pose[1].landmarks

Made(op, args, r) ==
    Some([op |-> op, args |-> args, threw |-> r.threw, points |-> r.points])

\* this.interpolateSegment(landmarks[a], landmarks[b], subs)
InterpolateSegment ==
    /\ made = None
    /\ \E a \in 0..3, b \in 0..3, subs \in SegmentCounts :
          made' = Made("interpolateSegment", [a |-> a, b |-> b, subdivisions |-> subs],
                       interpolateSegment(At(Given, a), At(Given, b), subs))
    /\ UNCHANGED <<supplied, filtered, game, stabilizerVars, raw, dense, engineVars, loopVars>>

\* const subdiv = this.subdivideContour(landmarks, indices, subs);
\* subdiv.forEach(p => p.region = region)
SubdivideContour ==
    /\ made = None
    /\ \E indices \in IndexLists, subs \in ContourCounts,
          region \in {"leftEye", "jawline"} :
          made' = Made("subdivideContour",
                       [indices |-> indices, subdivisions |-> subs, region |-> region],
                       Tagged(subdivideContour(Given, indices, subs), region))
    /\ UNCHANGED <<supplied, filtered, game, stabilizerVars, raw, dense, engineVars, loopVars>>

\* this.interpolateSurface([landmarks[c0], landmarks[c1], landmarks[c2], landmarks[c3]], G)
InterpolateSurface ==
    /\ made = None
    /\ \E c \in CornerLists, gridSize \in GridSizes :
          made' = Made("interpolateSurface", [corners |-> c, gridSize |-> gridSize],
                       interpolateSurface([k \in 1..4 |-> At(Given, c[k])], gridSize))
    /\ UNCHANGED <<supplied, filtered, game, stabilizerVars, raw, dense, engineVars, loopVars>>

\* this.createDepthLayers(landmarks, indices, numLayers)
CreateDepthLayers ==
    /\ made = None
    /\ \E indices \in IndexLists, numLayers \in LayerCounts :
          made' = Made("createDepthLayers", [indices |-> indices, numLayers |-> numLayers],
                       createDepthLayers(Given, indices, numLayers))
    /\ UNCHANGED <<supplied, filtered, game, stabilizerVars, raw, dense, engineVars, loopVars>>

NextGeometry ==
    InterpolateSegment \/ SubdivideContour \/ InterpolateSurface \/ CreateDepthLayers

SpecGeometry == InitGeometry /\ [][NextGeometry]_vars

(***************************************************************************)
(* The WaveMotionEngine on stabilized frames                               *)
(***************************************************************************)
MaxWaveFrames == 4

\* A point as the Stabilizer returns it.
StabilizedPoint(p) ==
    [p EXCEPT !.visibility = Some(OrElse(p.visibility, Scale)),
              !.stabilized = Some(TRUE)]
StabilizedPoints(points) == [i \in 1..Len(points) |-> StabilizedPoint(points[i])]

\* A frame as Stabilizer.stabilize returns it.
StabilizedFrame(face, body, hands, blendshapes) ==
    [face |-> Group(StabilizedPoints(face)), body |-> Group(StabilizedPoints(body)),
     hands |-> Group(StabilizedPoints(hands)), blendshapes |-> blendshapes,
     timestamp |-> 0, fps |-> 60,
     totalPoints |-> Len(face) + Len(body) + Len(hands)]

Expression ==
    <<[categoryName |-> "jawOpen", score |-> 500],
      [categoryName |-> "browOuterUpLeft", score |-> 300],
      [categoryName |-> "mouthSmileLeft", score |-> 400]>>

\* Nothing tracked; a body that moves between two frames, with an interpolated
\* point next to landmark 0; a face with an expression and a hand; a moved hand and
\* a body of which only an interpolated point is left.
WavePool ==
    { StabilizedFrame(<<>>, <<>>, <<>>, <<>>),
      StabilizedFrame(<<>>,
          <<Original(ValA, 0, "body"), Interpolated(ValB, "arm"),
            Original(ValC, 11, "body"), Original(ValA, 13, "body")>>, <<>>, <<>>),
      StabilizedFrame(<<>>,
          <<Original(ValB, 0, "body"), Interpolated(ValA, "arm"),
            Original(ValA, 11, "body"), Original(ValC, 13, "body")>>, <<>>, <<>>),
      StabilizedFrame(
          <<Original(ValA, 70, "leftEyebrow"), Interpolated(ValB, "jawline"),
            Interpolated(ValC, "leftCheek")>>,
          <<>>,
          <<Original(ValA, 0, "hand_Left"), Interpolated(ValB, "hand_Left"),
            Interpolated(ValC, "hand_Left")>>, Expression),
      StabilizedFrame(<<>>, <<Interpolated(ValC, "arm")>>,
          <<Original(ValC, 0, "hand_Left"), Interpolated(ValA, "hand_Left"),
            Interpolated(ValB, "hand_Left")>>, <<>>) }

WaveOptionPool ==
    { NoWaveOptions,
      [NoWaveOptions EXCEPT !.stiffness = Some(300), !.damping = Some(850),
                            !.propagationSpeed = Some(150)],
      [NoWaveOptions EXCEPT !.damping = Some(1000), !.propagationSpeed = Some(500)] }

InitWave ==
    /\ \E opts \in WaveOptionPool : Constructed(NoOptions, opts)
    /\ raw = None

ProcessEffect(stabilizedData, r, shadow) ==
    /\ engine' = r.E
    /\ wave' = [op |-> "process", input |-> Some(stabilizedData), output |-> r.out,
                pre |-> Some(engine), n |-> wave.n + 1]
    /\ freshEngine' = shadow

Shadowed(r, cleared) == Some([E |-> r.E, out |-> r.out, cleared |-> cleared])

\* this.waveEngine.process(stabilizedData)
ProcessCall(stabilizedData) ==
    ProcessEffect(stabilizedData, process(engine, Some(stabilizedData)),
        IF freshEngine = None THEN None
        ELSE Shadowed(process(freshEngine[1].E, Some(stabilizedData)),
                      freshEngine[1].cleared))

Process ==
    /\ wave.n < MaxWaveFrames
    /\ \E stabilizedData \in WavePool : ProcessCall(stabilizedData)
    /\ UNCHANGED <<supplied, filtered, game, stabilizerVars, densifierVars, loopVars>>

\* this.waveEngine.reset()
ResetEngine ==
    /\ engine' = WaveMotionEngine_reset(engine)
    /\ wave' = [op |-> "reset", input |-> None, output |-> None, pre |-> Some(engine),
                n |-> wave.n]
    /\ freshEngine' = Some([E |-> ConstructedEngine(engine.config), out |-> None,
                            cleared |-> engine])
    /\ UNCHANGED <<supplied, filtered, game, stabilizerVars, densifierVars, loopVars>>

NextWave == Process \/ ResetEngine

SpecWave == InitWave /\ [][NextWave]_vars

\* The layout the engine's keys assume: a body segment is a tracked point at a
\* multiple of 5, four interpolated points, and the next tracked point; a hand
\* segment is the same with a stride of 4. The segment starts at x and is len long.
SegmentStarts == {100, 400, 900}
SegmentLengths == {10, 200}
OnSegment(x, len, k, stride) == Landmark(x + (k * len) \div stride, 200, 0, Some(Scale))
StridedPoints(x, len, stride, region) ==
    [i \in 1..(stride + 1) |->
        IF i = 1 \/ i = stride + 1
        THEN Original(OnSegment(x, len, i - 1, stride), i - 1, region)
        ELSE Interpolated(OnSegment(x, len, i - 1, stride), region)]
StridedPool ==
    { StabilizedFrame(<<>>, StridedPoints(x, len, bodyStride, "arm"),
                      StridedPoints(x, len, handStride, "hand_Left"), <<>>) :
        x \in SegmentStarts, len \in SegmentLengths }

\* this.waveEngine.process(stabilizedData) on the frames of a moving segment
ProcessStrided ==
    /\ wave.n < MaxWaveFrames
    /\ \E stabilizedData \in StridedPool :
           ProcessEffect(stabilizedData, process(engine, Some(stabilizedData)), None)
    /\ UNCHANGED <<supplied, filtered, game, stabilizerVars, densifierVars, loopVars>>

SpecStrided == InitWave /\ [][ProcessStrided]_vars

\* Options an application can supply, the boundary values among them: new
\* Stabilizer({beta: 0}), new WaveMotionEngine({stiffness: 0}), ...
ConfiguredOptionPool ==
    { NoOptions,
      [NoOptions EXCEPT !.beta = Some(0)],
      [NoOptions EXCEPT !.minCutoff = Some(1000), !.beta = Some(7),
                        !.dCutoff = Some(2000)],
      [NoOptions EXCEPT !.processNoise = Some(10), !.measurementNoise = Some(100)] }
ConfiguredWaveOptionPool ==
    { NoWaveOptions,
      [NoWaveOptions EXCEPT !.stiffness = Some(0)],
      [NoWaveOptions EXCEPT !.propagationSpeed = Some(0)],
      [NoWaveOptions EXCEPT !.stiffness = Some(500), !.damping = Some(900),
                            !.propagationSpeed = Some(300)] }

InitConfigured ==
    /\ \E options \in ConfiguredOptionPool, waveOptions \in ConfiguredWaveOptionPool :
           Constructed(options, waveOptions)
    /\ raw = None

MaxConfiguredFrames == 2

\* this.stabilizer.stabilize(denseData) of the configured Stabilizer
ConfiguredStabilize ==
    /\ frames < MaxConfiguredFrames
    /\ \E frame \in TrackPool, period \in TrackPeriods : StabilizeStep(frame, period)
    /\ UNCHANGED <<supplied, filtered, game, densifierVars, engineVars, loopVars>>

\* this.waveEngine.process(stabilizedData) of the configured engine
ConfiguredProcess ==
    /\ wave.n < MaxConfiguredFrames
    /\ \E stabilizedData \in WavePool :
           ProcessEffect(stabilizedData, process(engine, Some(stabilizedData)), None)
    /\ UNCHANGED <<supplied, filtered, game, stabilizerVars, densifierVars, loopVars>>

NextConfigured == ConfiguredStabilize \/ ConfiguredProcess

SpecConfigured == InitConfigured /\ [][NextConfigured]_vars

(***************************************************************************)
(* The application loop                                                    *)
(***************************************************************************)
MaxTicks == 4
MaxVideoFrames == 3
\* The face is tracked in the first MaxFaceTime video frames only.
MaxFaceTime == 1

\* What the landmarkers find in a video frame: nothing; a pose; the pose moved;
\* a pose and a hand; two hands; a face.
FoundPool ==
    { TrackingResults(None, None, None),
      TrackingResults(None, RawPose(PoseLandmarks, 1), None),
      TrackingResults(None, RawPose(PoseLandmarks, 2), None),
      TrackingResults(None, RawPose(PoseLandmarks, 3), RawHands(<<HandLandmarks>>, 1)),
      TrackingResults(None, None, RawHands(<<HandLandmarks, HandLandmarks>>, 2)),
      TrackingResults(RawFace(FaceLandmarks, 2), None, None) }

InitLoop ==
    /\ Constructed([NoOptions EXCEPT !.minCutoff = Some(800), !.beta = Some(5),
                                     !.processNoise = Some(5),
                                     !.measurementNoise = Some(50)],
                   [NoWaveOptions EXCEPT !.stiffness = Some(300), !.damping = Some(850),
                                         !.propagationSpeed = Some(150)])
    /\ raw = None

Sum(a, b) ==
    [densify |-> a.densify + b.densify, stabilize |-> a.stabilize + b.stabilize,
     process |-> a.process + b.process]

LoopEffect(R, clock) ==
    /\ now' = clock
    /\ tracker' = R.tracker
    /\ raw' = IF R.calls.densify = 0 THEN raw ELSE R.raw
    /\ dense' = IF R.calls.densify = 0 THEN dense ELSE R.dense
    /\ stabilizer' = R.S
    /\ call' = IF R.calls.stabilize = 0 THEN call
               ELSE [op |-> "stabilize", input |-> R.dense[1].out, output |-> R.stabilized,
                     pre |-> Some(stabilizer), preTrack |-> track]
    /\ engine' = R.E
    /\ wave' = IF R.calls.process = 0 THEN wave
               ELSE [op |-> "process", input |-> R.stabilized, output |-> R.processed,
                     pre |-> Some(engine), n |-> wave.n + 1]
    /\ tick' = [op |-> R.op,
                pre |-> Some([stabilizer |-> stabilizer, engine |-> engine,
                              tracker |-> tracker, calls |-> tick.calls]),
                video |-> video,
                calls |-> Sum(tick.calls, R.calls),
                ran |-> IF R.calls.densify = 0 THEN tick.ran
                        ELSE Append(tick.ran, video.currentTime),
                n |-> tick.n + 1]
    /\ UNCHANGED <<supplied, filtered, game, frames, measured, track, fresh, made, freshEngine, video, running>>

\* requestAnimationFrame(() => this.loop())
Tick ==
    /\ running
    /\ tick.n < MaxTicks
    /\ \E found \in FoundPool, period \in TrackPeriods :
          /\ found.face # None => video.currentTime <= MaxFaceTime
          /\ LoopEffect(loop(tracker, video, stabilizer, engine, now + period, found),
                        now + period)

\* The camera delivers the next video frame.
VideoFrame ==
    /\ video.currentTime < MaxVideoFrames
    /\ video' = [readyState |-> HaveCurrentData, currentTime |-> video.currentTime + 1]
    /\ UNCHANGED <<supplied, filtered, game, stabilizerVars, densifierVars, engineVars, tracker, running, tick>>

\* stop()
Stop ==
    /\ running
    /\ running' = FALSE
    /\ stabilizer' = Stabilizer_reset(stabilizer)
    /\ engine' = WaveMotionEngine_reset(engine)
    /\ tick' = [tick EXCEPT !.op = "stop",
                            !.pre = Some([stabilizer |-> stabilizer, engine |-> engine,
                                          tracker |-> tracker, calls |-> tick.calls])]
    /\ UNCHANGED <<supplied, filtered, game, now, frames, measured, call, track, fresh, densifierVars, wave,
                   freshEngine, tracker, video>>

NextLoop == Tick \/ VideoFrame \/ Stop

SpecLoop == InitLoop /\ [][NextLoop]_vars

(***************************************************************************)
(* The game                                                                *)
(***************************************************************************)
MaxGameLoops == 4
MaxRounds == 2
\* The time between two calls of gameLoop, in ms.
LoopPeriods == {1000}
\* What tracker.detect returns: nothing, no face, a face the detector of the target
\* does not match, a face it matches.
DetectResults ==
    {None, Some([face |-> FALSE, match |-> FALSE]), Some([face |-> TRUE, match |-> FALSE]),
     Some([face |-> TRUE, match |-> TRUE])}

\* The state e the call `op` leaves, with the description of the call: whether it
\* called nextTarget (next) and whether it did so with timeLeft < 15 and no 'Hands Up!'
\* presented in the round (due); and the round with the success (held) counted.
Called(op, e, next, due) ==
    [e EXCEPT !.last = [op |-> op, pre |-> game.G, next |-> next, due |-> due]]
InRound(e, next, held) ==
    [e EXCEPT !.round.successes = IF held THEN @ + 1 ELSE @,
              !.round.hits = IF next THEN 0 ELSE IF held THEN @ + 1 ELSE @,
              !.round.presented = IF next THEN Append(@, e.G.currentExpressionIndex)
                                  ELSE @]
\* A success: at time t the face has matched the target for the threshold.
Held(result, t) ==
    /\ result # None
    /\ result[1].face /\ result[1].match
    /\ ~game.G.isGameOver
    /\ game.G.currentTarget # None
    /\ game.G.isMatching
    /\ t - game.G.targetStartTime >= matchThreshold
NewRound(e) ==
    [e EXCEPT !.round = [successes |-> 0, hits |-> 0,
                         presented |-> <<e.G.currentExpressionIndex>>,
                         n |-> game.round.n + 1]]

\* requestAnimationFrame(() => this.gameLoop())
GameLoop ==
    /\ game.scheduled
    /\ game.loops < MaxGameLoops
    /\ \E result \in DetectResults, period \in LoopPeriods :
          game' = InRound(Called("gameLoop",
                                 gameLoop([game EXCEPT !.loops = @ + 1], result,
                                          game.now + period),
                                 FALSE, FALSE),
                          FALSE, Held(result, game.now + period))
    /\ UNCHANGED <<supplied, filtered, stabilizerVars, densifierVars, engineVars, loopVars>>

\* The end of the countdown of showInstructions(): this.startGame()
StartGame ==
    /\ ~game.started
    /\ \E nextIndex \in Accepted([game.G EXCEPT !.hasHandedUpThisRound = FALSE,
                                                !.expressionHistory = <<>>]) :
          game' = NewRound(Called("startGame",
                                  startGame([game EXCEPT !.started = TRUE], nextIndex),
                                  TRUE, FALSE))
    /\ UNCHANGED <<supplied, filtered, stabilizerVars, densifierVars, engineVars, loopVars>>

\* The restart button of the game-over overlay: this.restartGame()
RestartGame ==
    /\ game.G.isGameOver
    /\ game.round.n < MaxRounds
    /\ \E nextIndex \in Accepted(game.G) :
          game' = NewRound(Called("restartGame", restartGame(game, nextIndex),
                                  TRUE, FALSE))
    /\ UNCHANGED <<supplied, filtered, stabilizerVars, densifierVars, engineVars, loopVars>>

\* A second of a running timer has passed.
TimerTick ==
    /\ game.intervals # {}
    /\ game' = InRound(Called("timer", timerCallback(game), FALSE, FALSE), FALSE, FALSE)
    /\ UNCHANGED <<supplied, filtered, stabilizerVars, densifierVars, engineVars, loopVars>>

\* Half a second after a success.
NextTargetTimeout ==
    /\ game.timeouts > 0
    /\ \E nextIndex \in Accepted(game.G) :
          game' = InRound(Called("nextTarget", nextTargetCallback(game, nextIndex),
                                 ~game.G.isGameOver,
                                 /\ ~game.G.isGameOver
                                 /\ game.G.timeLeft < HalfTime
                                 /\ handsUpIndex \notin Members(game.round.presented)),
                          ~game.G.isGameOver, FALSE)
    /\ UNCHANGED <<supplied, filtered, stabilizerVars, densifierVars, engineVars, loopVars>>

NextGame == GameLoop \/ StartGame \/ RestartGame \/ TimerTick \/ NextTargetTimeout

InitGame ==
    /\ Constructed(NoOptions, NoWaveOptions)
    /\ raw = None

SpecGame == InitGame /\ [][NextGame]_vars

(***************************************************************************)
(* Properties of the Stabilizer                                            *)
(***************************************************************************)
GroupNames == {"face", "body", "hands"}
Prefix(g) == IF g = "face" THEN "face_" ELSE IF g = "body" THEN "body_" ELSE "hand_"
GroupOf(d, g) == IF g = "face" THEN d.face ELSE IF g = "body" THEN d.body ELSE d.hands
MapOf(S, g) ==
    IF g = "face" THEN S.faceFilters ELSE IF g = "body" THEN S.bodyFilters
    ELSE S.handFilters

Stabilized == call.op = "stabilize"
\* The points of group g given to, and returned by, the last stabilize call.
InPoints(g) ==
    IF GroupOf(call.input[1], g) = None THEN <<>> ELSE GroupOf(call.input[1], g)[1].points
OutPoints(g) == GroupOf(call.output[1], g).points
InId(g, i) == PointId(Prefix(g), InPoints(g)[i], i)

\* Point i of group g is the first sample of its id: the id had no filter before
\* the call and no earlier point of the frame has the same id.
FirstSample(g, i) ==
    /\ InId(g, i) \notin DOMAIN MapOf(call.pre[1], g)
    /\ \A j \in 1..(i - 1) : InId(g, j) # InId(g, i)

SameCoordinates(p, q) == p.x = q.x /\ p.y = q.y /\ p.z = q.z

RECURSIVE AbsentRun(_)
\* The number of calls, up to the last one, in a row without the id.
AbsentRun(seen) ==
    IF seen = <<>> \/ seen[Len(seen)] THEN 0
    ELSE 1 + AbsentRun(SubSeq(seen, 1, Len(seen) - 1))

IsFreshFilter(f) ==
    /\ f.euroX = NewOneEuroFilter /\ f.euroY = NewOneEuroFilter
    /\ f.euroZ = NewOneEuroFilter
    /\ f.kalmanX.x = None /\ f.kalmanY.x = None /\ f.kalmanZ.x = None
    /\ f.lastPoint = None /\ f.occlusionFrames = 0

\* C1 (as claimed): the point emitted for the first sample of a stable id equals
\* the raw input point in x, y, z and visibility.
C1_FirstSamplePassthrough ==
    Stabilized =>
        \A g \in GroupNames : \A i \in 1..Len(InPoints(g)) :
            FirstSample(g, i) =>
                /\ SameCoordinates(OutPoints(g)[i], InPoints(g)[i])
                /\ InPoints(g)[i].visibility # None =>
                       OutPoints(g)[i].visibility = InPoints(g)[i].visibility

\* What the code does on a first sample: the coordinates pass through, and the
\* visibility is the input's unless that is 0 or missing, which becomes 1.
C1_CoordinatesPassThrough ==
    Stabilized =>
        \A g \in GroupNames : \A i \in 1..Len(InPoints(g)) :
            FirstSample(g, i) =>
                /\ SameCoordinates(OutPoints(g)[i], InPoints(g)[i])
                /\ OutPoints(g)[i].visibility
                       = Some(OrElse(InPoints(g)[i].visibility, Scale))

\* The filters that held a measurement before the last call and whose id the
\* frame of that call does not contain.
Occluded ==
    {id \in DOMAIN Filters(call.pre[1]) :
        /\ id \notin FrameIds(call.input[1])
        /\ Filters(call.pre[1])[id].lastPoint # None}

OutPointsOf(id) ==
    IF id[1] = "face_" THEN OutPoints("face")
    ELSE IF id[1] = "body_" THEN OutPoints("body") ELSE OutPoints("hands")

\* C2 (as claimed): a stable id with filter state that is absent from the frame
\* gets its occlusion counter incremented and, for up to 10 consecutive missing
\* frames, a predicted point in the output (extrapolated position, visibility 0.3).
C2_OcclusionPredicted ==
    Stabilized /\ stabilizer.config.useKalman =>
        \A id \in Occluded :
            AbsentRun(track[id].seen) <= OcclusionLimit =>
                /\ Filters(stabilizer)[id].occlusionFrames
                       = Filters(call.pre[1])[id].occlusionFrames + 1
                /\ \E k \in 1..Len(OutPointsOf(id)) :
                       /\ OutPointsOf(id)[k].visibility = Some(PredictedVisibility)
                       /\ Some(OutPointsOf(id)[k].x)
                              = KalmanFilter1D_predict(Filters(call.pre[1])[id].kalmanX,
                                                       call.output[1].timestamp)

\* C3 (as claimed): a stable id absent for more than 10 consecutive frames has its
\* filter fully reset, and the frame in which it reappears is a first sample: the
\* output equals the raw input.
C3_OcclusionReset ==
    Stabilized =>
        /\ \A id \in DOMAIN Filters(stabilizer) :
               AbsentRun(track[id].seen) > OcclusionLimit =>
                   IsFreshFilter(Filters(stabilizer)[id])
        /\ \A g \in GroupNames : \A i \in 1..Len(InPoints(g)) :
               (/\ InId(g, i) \in DOMAIN call.preTrack
                /\ AbsentRun(call.preTrack[InId(g, i)].seen) > OcclusionLimit)
               => SameCoordinates(OutPoints(g)[i], InPoints(g)[i])

\* C4: a stable id that has a filter keeps that same filter object in every later
\* frame (getFilter creates none); a frame without the id leaves the filter as
\* the last frame with the id left it, whatever the number of frames in between,
\* and the frame in which the id is present again is filtered from that state:
\* its output continues the earlier trajectory.
C4_IdentityPreserved ==
    Stabilized =>
        /\ \A id \in DOMAIN Filters(call.pre[1]) :
               /\ id \in DOMAIN Filters(stabilizer)
               /\ Filters(stabilizer)[id].ref = Filters(call.pre[1])[id].ref
               /\ Filters(call.pre[1])[id] = call.preTrack[id].held
               /\ id \notin FrameIds(call.input[1]) =>
                      Filters(stabilizer)[id] = call.preTrack[id].held
        /\ \A g \in GroupNames : \A i \in 1..Len(InPoints(g)) :
               (/\ InId(g, i) \in DOMAIN call.preTrack
                /\ \A j \in 1..(i - 1) : InId(g, j) # InId(g, i))
               => LET res == Point3DFilter_filter(call.preTrack[InId(g, i)].held,
                                                  stabilizer.config,
                                                  Some(InPoints(g)[i]),
                                                  call.output[1].timestamp)
                  IN  /\ OutPoints(g)[i].x = res.out[1].x[1]
                      /\ OutPoints(g)[i].y = res.out[1].y[1]
                      /\ OutPoints(g)[i].z = res.out[1].z[1]

\* (face, 13) present in frames 1..5, absent in frame 6, present and moved in frame 7.
C4_Witness ==
    /\ Stabilized
    /\ <<"face_", 13>> \in DOMAIN track
    /\ track[<<"face_", 13>>].seen = <<TRUE, TRUE, TRUE, TRUE, TRUE, FALSE, TRUE>>
    /\ OutPoints("face")[1].x # InPoints("face")[1].x

WithoutRef(map) == [id \in DOMAIN map |-> [map[id] EXCEPT !.ref = 0]]

\* C9: after reset() the three filter maps are empty, a second reset() changes
\* nothing, and every later stabilize call returns what a newly constructed
\* Stabilizer with the same configuration returns for the frames fed since the
\* reset, and leaves the same filter states.
C9_ResetIsNew ==
    /\ call.op = "reset" =>
           /\ stabilizer.faceFilters = EmptyMap
           /\ stabilizer.bodyFilters = EmptyMap
           /\ stabilizer.handFilters = EmptyMap
           /\ Stabilizer_reset(stabilizer) = stabilizer
    /\ fresh # None =>
           /\ stabilizer.config = fresh[1].S.config
           /\ WithoutRef(Filters(stabilizer)) = WithoutRef(Filters(fresh[1].S))
           /\ Stabilized => call.output = fresh[1].out

\* A reset after frames had been filtered, then two frames; the second meets
\* filters made by the first.
C9_Witness ==
    /\ Stabilized
    /\ fresh # None
    /\ stabilizer.heap > fresh[1].S.heap
    /\ \E id \in FrameIds(call.input[1]) : id \in DOMAIN Filters(call.pre[1])
    /\ \E g \in GroupNames : \E i \in 1..Len(InPoints(g)) :
           ~SameCoordinates(OutPoints(g)[i], InPoints(g)[i])

\* q is p except for x, y, z, visibility and the stabilized mark.
Restyled(p, q) ==
    [q EXCEPT !.x = p.x, !.y = p.y, !.z = p.z, !.visibility = p.visibility,
              !.stabilized = p.stabilized] = p

\* C16: stabilize returns for each group as many points as it was given, in the
\* same order, each with the region, interpolated flag and originalIndex (and
\* every other property) of the input point at its position, changed only in x, y,
\* z, visibility and the stabilized mark; the count of a group is the length of
\* its points and totalPoints is the sum of the three counts.
C16_StructureKept ==
    Stabilized =>
        /\ \A g \in GroupNames :
               /\ Len(OutPoints(g)) = Len(InPoints(g))
               /\ \A i \in 1..Len(OutPoints(g)) :
                      /\ Restyled(InPoints(g)[i], OutPoints(g)[i])
                      /\ OutPoints(g)[i].stabilized = Some(TRUE)
               /\ GroupOf(call.output[1], g).count = Len(OutPoints(g))
        /\ call.output[1].totalPoints
               = Len(OutPoints("face")) + Len(OutPoints("body")) + Len(OutPoints("hands"))

\* A frame with two face points and a tracked and an interpolated body point, the
\* tracked one smoothed by a filter that had seen it before.
C16_Witness ==
    /\ Stabilized
    /\ Len(OutPoints("face")) = 2
    /\ Len(OutPoints("body")) = 2
    /\ OutPoints("body")[1].originalIndex # None
    /\ OutPoints("body")[2].interpolated = Some(TRUE)
    /\ OutPoints("body")[2].region = Some("arm")
    /\ OutPoints("body")[1].x # InPoints("body")[1].x

\* Point i of group g is the second sample of its id: the filter of the id was
\* made by the frame before, and no other point of this frame has the id.
SecondSample(g, i) ==
    /\ InId(g, i) \in DOMAIN call.preTrack
    /\ call.preTrack[InId(g, i)].seen = <<TRUE>>
    /\ \A j \in 1..Len(InPoints(g)) : InId(g, j) = InId(g, i) => j = i
\* The filter of that id as the first sample left it.
FirstHeld(g, i) == call.preTrack[InId(g, i)].held
StrictlyBetween(a, x, b) == (a < x /\ x < b) \/ (b < x /\ x < a)
DefaultCutoffs ==
    /\ stabilizer.config.minCutoff = DefaultMinCutoff
    /\ stabilizer.config.beta = DefaultBeta
    /\ stabilizer.config.dCutoff = DefaultDCutoff

\* C17: with the default cutoffs, when an id first seen at x0 is seen in the next
\* frame, at a later time, at x1 # x0, the output coordinate of that frame lies
\* strictly between x0 and x1 (and so for y and z).
C17_PartlySmoothed ==
    (Stabilized /\ DefaultCutoffs) =>
        \A g \in GroupNames : \A i \in 1..Len(InPoints(g)) :
            SecondSample(g, i) =>
                /\ InPoints(g)[i].x # FirstHeld(g, i).euroX.xPrev[1] =>
                       StrictlyBetween(FirstHeld(g, i).euroX.xPrev[1],
                                       OutPoints(g)[i].x, InPoints(g)[i].x)
                /\ InPoints(g)[i].y # FirstHeld(g, i).euroY.xPrev[1] =>
                       StrictlyBetween(FirstHeld(g, i).euroY.xPrev[1],
                                       OutPoints(g)[i].y, InPoints(g)[i].y)
                /\ InPoints(g)[i].z # FirstHeld(g, i).euroZ.xPrev[1] =>
                       StrictlyBetween(FirstHeld(g, i).euroZ.xPrev[1],
                                       OutPoints(g)[i].z, InPoints(g)[i].z)

\* (face, 13) seen at (0.5, 0.5, 0) and, 17 ms later, at (0.6, 0.4, -0.05).
C17_Witness ==
    /\ Stabilized
    /\ DefaultCutoffs
    /\ stabilizer.config.useKalman
    /\ Len(InPoints("face")) = 1
    /\ SecondSample("face", 1)
    /\ FirstHeld("face", 1).euroX.xPrev = Some(500)
    /\ InPoints("face")[1].x = 600
    /\ now - FirstHeld("face", 1).euroX.tPrev[1] = 17
    /\ StrictlyBetween(500, OutPoints("face")[1].x, 600)

HighCutoff ==
    /\ stabilizer.config.minCutoff >= Infinity
    /\ stabilizer.config.beta = DefaultBeta
    /\ stabilizer.config.dCutoff = DefaultDCutoff
    /\ stabilizer.config.processNoise = DefaultProcessNoise
    /\ stabilizer.config.measurementNoise = DefaultMeasurementNoise

\* With minCutoff arbitrarily high the 1-euro stage returns the second sample as
\* it is, and so does the filter when useKalman is false.
C18_EuroPassesThrough ==
    (Stabilized /\ HighCutoff) =>
        \A g \in GroupNames : \A i \in 1..Len(InPoints(g)) :
            SecondSample(g, i) =>
                /\ Filters(stabilizer)[InId(g, i)].euroX.xPrev = Some(InPoints(g)[i].x)
                /\ Filters(stabilizer)[InId(g, i)].euroY.xPrev = Some(InPoints(g)[i].y)
                /\ Filters(stabilizer)[InId(g, i)].euroZ.xPrev = Some(InPoints(g)[i].z)
                /\ ~stabilizer.config.useKalman =>
                       SameCoordinates(InPoints(g)[i], OutPoints(g)[i])

\* C18: with minCutoff arbitrarily high and the other options at their defaults,
\* the output for the second observation x1 of an id is x1 exactly (and so for y
\* and z): no stage of the point filter smooths it.
C18_PassthroughLimit ==
    (Stabilized /\ HighCutoff /\ stabilizer.config.useKalman) =>
        \A g \in GroupNames : \A i \in 1..Len(InPoints(g)) :
            SecondSample(g, i) => SameCoordinates(InPoints(g)[i], OutPoints(g)[i])

\* The timestamp of the last call of stabilize, and the filters it updated that
\* had seen a sample before.
UsedTimestamp == OrElse(call.input[1].timestamp, now)
Refiltered == FrameIds(call.input[1]) \cap DOMAIN Filters(call.pre[1])
Euros == {"euroX", "euroY", "euroZ"}
Kalmans == {"kalmanX", "kalmanY", "kalmanZ"}
StrictlyInside(a) == 0 < a /\ a < Scale
\* The 1-euro filter e, in state f before the call and g after it, used a dt of at
\* least 1 ms and smoothing factors inside (0, 1).
EuroFloored(f, g, cfg) ==
    f.tPrev # None =>
        /\ TimeDelta(UsedTimestamp, f.tPrev[1]) >= 1
        /\ StrictlyInside(alpha(cfg.dCutoff, TimeDelta(UsedTimestamp, f.tPrev[1])))
        /\ StrictlyInside(alpha(cfg.minCutoff + (cfg.beta * Abs(g.dxPrev[1])) \div Scale,
                                TimeDelta(UsedTimestamp, f.tPrev[1])))
        /\ g.tPrev = Some(UsedTimestamp)
KalmanFloored(f, g, cfg) ==
    (cfg.useKalman /\ f.x # None) =>
        /\ TimeDelta(UsedTimestamp, f.lastTimestamp[1]) >= 1
        /\ StrictlyInside(g.K)
        /\ g.P > 0
        /\ g.lastTimestamp = Some(UsedTimestamp)

\* C24: whatever the timestamps of the frames, every update of a 1-euro filter and of
\* a Kalman filter uses a dt of at least 1 ms; alpha and the gain K are strictly
\* between 0 and 1 and the uncertainty P is positive.
C24_TimeDeltaFloored ==
    Stabilized =>
        \A id \in Refiltered :
            /\ \A e \in Euros :
                   EuroFloored(Filters(call.pre[1])[id][e], Filters(stabilizer)[id][e],
                               stabilizer.config)
            /\ \A k \in Kalmans :
                   KalmanFloored(Filters(call.pre[1])[id][k], Filters(stabilizer)[id][k],
                                 stabilizer.config)

\* A filter updated with a timestamp below the one of its last sample, after an
\* update with a repeated timestamp.
C24_Witness ==
    /\ Stabilized
    /\ stabilizer.config.useKalman
    /\ frames = MaxStampedFrames
    /\ \E id \in Refiltered :
           /\ UsedTimestamp < Filters(call.pre[1])[id].euroX.tPrev[1]
           /\ UsedTimestamp < Filters(call.pre[1])[id].kalmanX.lastTimestamp[1]
           /\ Filters(call.pre[1])[id].kalmanX.K > 0
           /\ Filters(stabilizer)[id].kalmanX.velocity # 0

\* The filter the point at position i of group g is given to.
FilterOf(g, i) == PointId(Prefix(g), InPoints(g)[i], i)
DistinctFilters(g) ==
    Cardinality({FilterOf(g, i) : i \in DOMAIN InPoints(g)}) = Len(InPoints(g))
OneHand ==
    \A i, j \in DOMAIN InPoints("hands") :
        InPoints("hands")[i].handIndex = InPoints("hands")[j].handIndex

\* C25: in a call of stabilize no filter is given more than one point of the frame:
\* the points of a frame are filtered independently of each other.
C25_OneFilterPerPoint ==
    Stabilized => \A g \in GroupNames : DistinctFilters(g)

\* C25, the part that holds: the points of the body have a filter each, and so have
\* the points of a single hand.
C25_OneFilterPerPointOfAHand ==
    Stabilized =>
        /\ DistinctFilters("body")
        /\ OneHand => DistinctFilters("hands")

\* The last call of filter() had no point and returned a predicted one.
Predicted ==
    /\ filtered.op = "filter"
    /\ filtered.point = None
    /\ filtered.out # None
    /\ filtered.out[1].predicted
\* The estimate of a Kalman filter moved on by its velocity over the time since its
\* last measurement.
Extrapolated(k, t) ==
    Some(k.x[1] + (k.velocity * Max(t - k.lastTimestamp[1], 1)) \div MsPerSec)

\* C26: a call of filter() without a point that returns a predicted point changes
\* the occlusion counter only; the predicted position is the last estimate moved by
\* the stored velocity over the time since the last measurement; and the next
\* measurement is filtered from the state the last measurement left.
C26_PredictionReadOnly ==
    /\ Predicted =>
           /\ filtered.f = [filtered.pre[1] EXCEPT !.occlusionFrames = @ + 1]
           /\ filtered.f = [filtered.held[1] EXCEPT
                               !.occlusionFrames = filtered.f.occlusionFrames]
           /\ filtered.out[1].x = Extrapolated(filtered.held[1].kalmanX, filtered.t)
           /\ filtered.out[1].y = Extrapolated(filtered.held[1].kalmanY, filtered.t)
           /\ filtered.out[1].z = Extrapolated(filtered.held[1].kalmanZ, filtered.t)
    /\ (filtered.op = "filter" /\ filtered.point # None
            /\ filtered.pre[1].occlusionFrames > 0 /\ filtered.from # None) =>
           /\ filtered.f = Point3DFilter_filter(filtered.from[1], stabilizer.config,
                                                filtered.point, filtered.t).f
           /\ filtered.out = Point3DFilter_filter(filtered.from[1], stabilizer.config,
                                                  filtered.point, filtered.t).out

\* A measurement after two predictions in a row of a point that was moving.
C26_Witness ==
    /\ filtered.op = "filter"
    /\ filtered.point # None
    /\ filtered.pre[1].occlusionFrames = 2
    /\ filtered.from # None
    /\ filtered.from[1].kalmanX.velocity # 0
    /\ stabilizer.config.useKalman

(***************************************************************************)
(* Properties of the Densifier                                             *)
(***************************************************************************)
\* densify returned a frame.
Densified == dense # None /\ ~dense[1].threw /\ dense[1].out # None
DensePoints(g) == GroupOf(dense[1].out[1], g)[1].points
NotInterpolated(points) == {i \in 1..Len(points) : ~Truthy(points[i].interpolated)}

\* C5 (as claimed): in every frame densify returns, each point of a group that is
\* not flagged interpolated carries an originalIndex, and the ids the Stabilizer
\* derives for the non-interpolated points of a group are pairwise different.
C5_UniqueStableIds ==
    Densified =>
        \A g \in GroupNames :
            /\ \A i \in NotInterpolated(DensePoints(g)) :
                   DensePoints(g)[i].originalIndex # None
            /\ Cardinality({PointId(Prefix(g), DensePoints(g)[i], i) :
                               i \in NotInterpolated(DensePoints(g))})
                   = Cardinality(NotInterpolated(DensePoints(g)))

\* The landmark indices the topology tables refer to.
Ends(segments) == {segments[s][e] : s \in 1..Len(segments), e \in 1..2}
BodyIndices == Ends(leftArm \o rightArm \o leftLeg \o rightLeg) \cup Members(torso)
FaceIndices ==
    Members(leftEye \o rightEye \o leftEyebrow \o rightEyebrow \o lipsOuter \o lipsInner
            \o faceOval \o leftCheek \o rightCheek)
HandIndices == Ends(fingerConnections)
Lacks(landmarks, indices) == \E k \in indices : k >= Len(landmarks)

\* A group is present and lacks a landmark the tables refer to.
MissingRawPoint(r) ==
    \/ r.face # None /\ Lacks(r.face[1].landmarks, FaceIndices)
    \/ r.pose # None /\ Lacks(r.pose[1].landmarks, BodyIndices)
    \/ /\ r.hands # None
       /\ \E h \in 1..Len(r.hands[1].landmarks) : Lacks(r.hands[1].landmarks[h], HandIndices)

\* C8 (as claimed): when a present group lacks a landmark the tables refer to,
\* densify returns a frame (no exception leaves it) that keeps every raw point of
\* the face and of the pose as an original point.
C8_MissingPointSkipped ==
    (dense # None /\ MissingRawPoint(raw[1])) =>
        /\ ~dense[1].threw
        /\ raw[1].face # None =>
               SubSeq(DensePoints("face"), 1, Len(raw[1].face[1].landmarks))
                   = originalPoints(raw[1].face[1].landmarks, "face")
        /\ raw[1].pose # None =>
               SubSeq(DensePoints("body"), 1, Len(raw[1].pose[1].landmarks))
                   = originalPoints(raw[1].pose[1].landmarks, "body")

\* The count of group g in the frame densify returned.
DenseCount(g) == GroupOf(dense[1].out[1], g)[1].count

MadeBy(op) == made # None /\ made[1].op = op
\* out = a + (b - a) * i / n
Blend(a, b, i, n, out) == out * n = a * n + (b - a) * i
\* The coordinates of p are those of p1 blended with p2 at t = i / n.
BlendedPoint(p1, p2, i, n, p) ==
    /\ Blend(p1.x, p2.x, i, n, p.x)
    /\ Blend(p1.y, p2.y, i, n, p.y)
    /\ Blend(p1.z, p2.z, i, n, p.z)
Visible(p) == p.visibility # None
Averaged(p1, p2, p) ==
    p.visibility # None /\ 2 * p.visibility[1] = p1.visibility[1] + p2.visibility[1]

\* interpolateSegment returns N - 1 points, the i-th blended at t = i / N and
\* flagged interpolated.
SegmentBlended(p1, p2, n, points) ==
    /\ Len(points) = n - 1
    /\ \A i \in 1..Len(points) :
           /\ BlendedPoint(p1, p2, i, n, points[i])
           /\ points[i].interpolated = Some(TRUE)

C11_SegmentBlended ==
    MadeBy("interpolateSegment") =>
        /\ ~made[1].threw
        /\ SegmentBlended(Given[made[1].args.a + 1], Given[made[1].args.b + 1],
                          made[1].args.subdivisions, made[1].points)

\* C11: interpolateSegment(p1, p2, N) returns exactly N - 1 points, the i-th with
\* each coordinate p1 + (p2 - p1) * i / N, interpolated = true, and as visibility
\* the average of the visibilities of p1 and p2, whatever their values in [0, 1].
C11_SegmentInterpolated ==
    MadeBy("interpolateSegment") =>
        /\ C11_SegmentBlended
        /\ \A i \in 1..Len(made[1].points) :
               (Visible(Given[made[1].args.a + 1]) /\ Visible(Given[made[1].args.b + 1]))
                   => Averaged(Given[made[1].args.a + 1], Given[made[1].args.b + 1],
                               made[1].points[i])

\* The original or interpolated point i (from 0) of the step of contour index k.
ContourPoint(k, i) == made[1].points[(k - 1) * (made[1].args.subdivisions + 1) + 1 + i]
ContourLandmark(k) == Given[made[1].args.indices[k] + 1]
NextOnContour(k) == ContourLandmark((k % Len(made[1].args.indices)) + 1)
SameLandmark(p, q) ==
    p.x = q.x /\ p.y = q.y /\ p.z = q.z /\ p.visibility = q.visibility

GridPoint(i, j) == made[1].points[i * (made[1].args.gridSize + 1) + j + 1]
Corner(k) == Given[made[1].args.corners[k] + 1]
\* out is the blend of top-left a, top-right b, bottom-right c and bottom-left d
\* at u = i / n, v = j / n.
Bilinear(a, b, c, d, i, j, n, out) ==
    out * n * n = (n - i) * (n - j) * a + i * (n - j) * b + i * j * c + (n - i) * j * d
BilinearPoint(i, j, n, p) ==
    /\ Bilinear(Corner(1).x, Corner(2).x, Corner(3).x, Corner(4).x, i, j, n, p.x)
    /\ Bilinear(Corner(1).y, Corner(2).y, Corner(3).y, Corner(4).y, i, j, n, p.y)
    /\ Bilinear(Corner(1).z, Corner(2).z, Corner(3).z, Corner(4).z, i, j, n, p.z)
SamePlace(p, q) == p.x = q.x /\ p.y = q.y /\ p.z = q.z

\* C13: for corners top-left, top-right, bottom-right, bottom-left and grid size G
\* interpolateSurface returns (G + 1)^2 points, one for each (u, v) with u and v
\* in {0, 1/G, .., 1}, marked with its (u, v) and placed at the bilinear blend
\* of the corners; the points marked (0,0), (1,0), (1,1) and (0,1) lie on the
\* top-left, top-right, bottom-right and bottom-left corner.
C13_SurfaceInterpolated ==
    MadeBy("interpolateSurface") =>
        /\ ~made[1].threw
        /\ Len(made[1].points)
               = (made[1].args.gridSize + 1) * (made[1].args.gridSize + 1)
        /\ \A i \in 0..made[1].args.gridSize, j \in 0..made[1].args.gridSize :
               /\ GridPoint(i, j).surfaceU = Some((i * Scale) \div made[1].args.gridSize)
               /\ GridPoint(i, j).surfaceV = Some((j * Scale) \div made[1].args.gridSize)
               /\ BilinearPoint(i, j, made[1].args.gridSize, GridPoint(i, j))
        /\ SamePlace(GridPoint(0, 0), Corner(1))
        /\ SamePlace(GridPoint(made[1].args.gridSize, 0), Corner(2))
        /\ SamePlace(GridPoint(made[1].args.gridSize, made[1].args.gridSize), Corner(3))
        /\ SamePlace(GridPoint(0, made[1].args.gridSize), Corner(4))

\* A grid of 36 points over four different corners, with a point inside the quad.
C13_Witness ==
    /\ MadeBy("interpolateSurface")
    /\ made[1].args.gridSize = 5
    /\ \A k, l \in 1..4 : k # l => ~SamePlace(Corner(k), Corner(l))
    /\ \A k \in 1..4 : ~SamePlace(GridPoint(2, 3), Corner(k))

\* The copy in layer l (from 0) of the landmark of index position q.
LayerPoint(l, q) == made[1].points[l * Len(made[1].args.indices) + q]
LayerSource(q) == Given[made[1].args.indices[q] + 1]

\* createDepthLayers returns L * k points; those of layer l have the x and y of
\* their landmark and its z moved by l * 0.02, and are interpolated iff l > 0.
C14_LayersPlaced ==
    MadeBy("createDepthLayers") =>
        /\ ~made[1].threw
        /\ Len(made[1].points) = made[1].args.numLayers * Len(made[1].args.indices)
        /\ \A l \in 0..(made[1].args.numLayers - 1), q \in 1..Len(made[1].args.indices) :
               /\ LayerPoint(l, q).x = LayerSource(q).x
               /\ LayerPoint(l, q).y = LayerSource(q).y
               /\ Abs(LayerPoint(l, q).z - LayerSource(q).z) = l * depthStep
               /\ LayerPoint(l, q).interpolated = Some(l > 0)

\* C14: createDepthLayers over k indices with L layers returns L * k points; a
\* point of layer 0 has the x, y, z and the visibility of its landmark and is not
\* interpolated; a point of layer l > 0 has the x and y of its landmark, its z
\* moved by l * 0.02, and is interpolated.
C14_DepthLayered ==
    MadeBy("createDepthLayers") =>
        /\ C14_LayersPlaced
        /\ \A q \in 1..Len(made[1].args.indices) :
               Visible(LayerSource(q)) => SameLandmark(LayerPoint(0, q), LayerSource(q))

(***************************************************************************)
(* Properties of the WaveMotionEngine                                      *)
(***************************************************************************)
Processed == wave.op = "process"
Moving(velocities) == \E k \in DOMAIN velocities : ~Still(velocities[k])

\* C10: after reset() previousData is null and the velocity cache is empty; from
\* then on the engine is in the state, and process returns the frames, of a newly
\* constructed engine with the same configuration fed the same frames; in the
\* first frame after the reset every stored velocity is zero and the body and hand
\* points are returned as they came in.
C10_EngineResetIsNew ==
    /\ wave.op = "reset" =>
           engine.previousData = None /\ engine.velocities = EmptyMap
    /\ freshEngine # None =>
           /\ engine = freshEngine[1].E
           /\ Processed => wave.output = freshEngine[1].out
    /\ (Processed /\ freshEngine # None /\ wave.pre[1].previousData = None) =>
           /\ ~Moving(engine.velocities)
           /\ wave.output[1].body.points = wave.input[1].body.points
           /\ wave.output[1].hands.points = wave.input[1].hands.points

\* A reset of an engine that held velocities, then two frames, the second of which
\* has a body point nudged by the velocity of its neighbour.
C10_Witness ==
    /\ Processed
    /\ freshEngine # None
    /\ Moving(freshEngine[1].cleared.velocities)
    /\ wave.pre[1].previousData # None
    /\ Moving(engine.velocities)
    /\ wave.output[1].body.points # wave.input[1].body.points

\* The displacement process gave the point at position i (from 1) of a group, as
\* its largest coordinate change, and the length of the segment the point lies on:
\* from the tracked point at the multiple of the stride below it to the next one,
\* as the sum of the coordinate differences (never less than the distance).
NudgeOf(g, i) ==
    Max(Abs(wave.output[1][g].points[i].x - wave.input[1][g].points[i].x),
        Max(Abs(wave.output[1][g].points[i].y - wave.input[1][g].points[i].y),
            Abs(wave.output[1][g].points[i].z - wave.input[1][g].points[i].z)))
SegmentBase(i, stride) == (((i - 1) \div stride) * stride) + 1
HasSegment(g, i, stride) ==
    /\ SegmentBase(i, stride) + stride \in DOMAIN wave.input[1][g].points
    /\ wave.input[1][g].points[SegmentBase(i, stride)].originalIndex # None
    /\ wave.input[1][g].points[SegmentBase(i, stride) + stride].originalIndex # None
SegmentLength(g, i, stride) ==
    LET a == wave.input[1][g].points[SegmentBase(i, stride)]
        b == wave.input[1][g].points[SegmentBase(i, stride) + stride]
    IN  Abs(a.x - b.x) + Abs(a.y - b.y) + Abs(a.z - b.z)
NudgeWithinSegment(g, stride) ==
    \A i \in DOMAIN wave.input[1][g].points :
        (Truthy(wave.input[1][g].points[i].interpolated) /\ HasSegment(g, i, stride)) =>
            NudgeOf(g, i) <= SegmentLength(g, i, stride)
\* The tracked body points of the frame are where the previous frame had them.
SourcesStopped ==
    /\ wave.pre[1].previousData # None
    /\ \A i \in DOMAIN wave.input[1].body.points :
           wave.input[1].body.points[i].originalIndex # None =>
               /\ i \in DOMAIN wave.pre[1].previousData[1].body.points
               /\ \A c \in {"x", "y", "z"} :
                      wave.pre[1].previousData[1].body.points[i][c]
                          = wave.input[1].body.points[i][c]
VelocitiesSettled ==
    \A i \in DOMAIN wave.input[1].body.points :
        wave.input[1].body.points[i].originalIndex # None =>
            LET k == <<"body_", wave.input[1].body.points[i].originalIndex[1]>>
            IN  k \in DOMAIN engine.velocities => Still(engine.velocities[k])

\* C19: the displacement process gives an interpolated body or hand point is never
\* more than the length of the segment the point lies on (a maximum fraction of at
\* most one), and in the frame in which the tracked body points have stopped their
\* cached velocities are below the threshold.
C19_PropagationBounded ==
    Processed =>
        /\ NudgeWithinSegment("body", bodyStride)
        /\ NudgeWithinSegment("hands", handStride)
        /\ SourcesStopped => VelocitiesSettled

\* C19, the part that holds: the cached velocities do not accumulate; one frame
\* after the tracked body points stop, each of their cached velocities is zero and
\* the interpolated body points are returned where they came in.
C19_VelocitiesSettle ==
    (Processed /\ SourcesStopped) =>
        /\ VelocitiesSettled
        /\ wave.output[1].body.points = wave.input[1].body.points

\* A segment that moved and then stopped: velocities were cached, and are zero now.
C19_SettledWitness ==
    /\ Processed
    /\ SourcesStopped
    /\ Moving(wave.pre[1].velocities)
    /\ VelocitiesSettled

\* The body points process was given, and those of the frame before.
BodyIn == wave.input[1].body.points
BodyBefore ==
    IF wave.pre[1].previousData = None THEN <<>>
    ELSE wave.pre[1].previousData[1].body.points
\* The last call of the engine was process, on a frame with body points (stop()
\* resets the engine without a call of process).
BodyProcessed ==
    Processed /\ tick.op # "stop" /\ wave.input # None /\ Len(BodyIn) > 0
TrackedAt(i) == BodyIn[i].originalIndex # None /\ ~Truthy(BodyIn[i].interpolated)
\* The neighbours of landmark s: every index listed for it in any chain.
Chains ==
    network_spine \o network_leftArm \o network_rightArm \o network_leftLeg
        \o network_rightLeg
NeighboursOf(s) ==
    UNION {{Chains[c][2][j] : j \in DOMAIN Chains[c][2]} :
              c \in {d \in DOMAIN Chains : Chains[d][1] = s}}
\* The neighbours processBody finds for landmark s: those of the last chain that
\* lists it.
LastListed(s) == IF s \in DOMAIN connectionMap THEN Members(connectionMap[s]) ELSE {}
\* The positions of the tracked points that have landmark k for a neighbour (in any
\* chain, or in the last chain that lists them) and move.
MovingSources(k, any) ==
    {j \in DOMAIN BodyIn :
        /\ BodyIn[j].originalIndex # None
        /\ k \in (IF any THEN NeighboursOf(BodyIn[j].originalIndex[1])
                  ELSE LastListed(BodyIn[j].originalIndex[1]))
        /\ ~Still(calculateVelocity(BodyIn[j], At(BodyBefore, j - 1)))}
RECURSIVE Received(_, _, _)
\* v and propagationSpeed times the velocity of each of the sources.
Received(v, sources, propagationSpeed) ==
    IF sources = {} THEN v
    ELSE LET j == CHOOSE x \in sources : TRUE
         IN  Received(attenuated(v, calculateVelocity(BodyIn[j], At(BodyBefore, j - 1)),
                                 propagationSpeed),
                      sources \ {j}, propagationSpeed)
Accumulated(i, any) ==
    Received(calculateVelocity(BodyIn[i], At(BodyBefore, i - 1)),
             MovingSources(BodyIn[i].originalIndex[1], any),
             engine.config.propagationSpeed)
CachedFor(i) == engine.velocities[<<"body_", BodyIn[i].originalIndex[1]>>]

\* C21: after processBody the velocity cached for a tracked body point is the damped
\* sum of its own velocity and propagationSpeed times the velocity of every moving
\* tracked point that lists it as a neighbour in any chain of defineBodyNetwork.
C21_PropagationReachesNeighbours ==
    BodyProcessed =>
        \A i \in DOMAIN BodyIn :
            TrackedAt(i) =>
                CachedFor(i) = damped(Accumulated(i, TRUE), engine.config.damping)

\* C21, the part that holds: the same with, for the neighbours of a point, those of
\* the last chain that lists it; points that do not move add nothing.
C21_LastChainPropagates ==
    BodyProcessed =>
        \A i \in DOMAIN BodyIn :
            TrackedAt(i) =>
                CachedFor(i) = damped(Accumulated(i, FALSE), engine.config.damping)

\* A moving pose: the shoulder (11) moves and the hip (23), which the spine chain
\* lists for it, is tracked.
C21_MovingWitness ==
    /\ BodyProcessed
    /\ \E i, j \in DOMAIN BodyIn :
           /\ TrackedAt(i) /\ BodyIn[i].originalIndex = Some(23)
           /\ j \in MovingSources(23, TRUE) /\ BodyIn[j].originalIndex = Some(11)
           /\ ~Still(CachedFor(i))

\* For each point densifyBody returns, the landmarks it was interpolated from: the
\* two ends of its segment, or the four corners of the torso for the points of the
\* spine and of the torso grid; none for the landmarks themselves.
Repeat(ends, n) == [i \in 1..n |-> ends]
EndsOf(segments) ==
    [k \in 1..(Len(segments) * (bodySubdivisions - 1)) |->
        Members(segments[((k - 1) \div (bodySubdivisions - 1)) + 1])]
BodyEndpoints ==
    Repeat({}, PoseLandmarks) \o EndsOf(leftArm \o rightArm)
        \o EndsOf(leftLeg \o rightLeg)
        \o Repeat(Members(torso), spineSubdivisions - 1)
        \o Repeat(Members(torso), (surfaceGridSize + 1) * (surfaceGridSize + 1))
BodyOut == wave.output[1].body.points
DensifiedBody == BodyProcessed /\ Len(BodyIn) = Len(BodyEndpoints)
CachedOrZero(k) ==
    IF <<"body_", k>> \in DOMAIN engine.velocities
    THEN engine.velocities[<<"body_", k>>] ELSE ZeroVelocity
NudgedFrom(i, k) == BodyOut[i] = bodyNudged(BodyIn[i], CachedOrZero(k))

\* C22: process returns every interpolated point of a densified body displaced by
\* v * dt * 0.02, v being the velocity cached for one of the landmarks the point was
\* interpolated from (zero when none is cached).
C22_NudgedFromNearest ==
    DensifiedBody =>
        \A i \in DOMAIN BodyIn :
            Truthy(BodyIn[i].interpolated) => \E k \in BodyEndpoints[i] : NudgedFrom(i, k)

\* C22, the part that holds: the interpolated point at position idx (from 0) is
\* displaced by the velocity cached under the key body_(5 * floor(idx / 5)), and
\* left where it was when there is none.
C22_NudgedByStride ==
    DensifiedBody =>
        \A i \in DOMAIN BodyIn :
            Truthy(BodyIn[i].interpolated) =>
                NudgedFrom(i, ((i - 1) \div bodyStride) * bodyStride)

\* C23: process leaves the frame it is given as it was: afterwards previousData is
\* that frame, with the coordinates it came in with.
C23_InputKept ==
    (Processed /\ tick.op # "stop" /\ wave.input # None) =>
        engine.previousData = wave.input

\* C23, the part that holds: previousData is replaced by the frame of the call, whose
\* points are the ones process returns (the offsets included), and nothing but the
\* coordinates of its points differs from the frame that came in.
C23_ReturnedKept ==
    (Processed /\ tick.op # "stop" /\ wave.input # None) =>
        /\ engine.previousData # None
        /\ \A g \in {"face", "body", "hands"} :
               /\ engine.previousData[1][g].points = wave.output[1][g].points
               /\ engine.previousData[1][g].count = wave.input[1][g].count
               /\ Len(engine.previousData[1][g].points) = Len(wave.input[1][g].points)
               /\ \A i \in DOMAIN wave.input[1][g].points :
                      [engine.previousData[1][g].points[i] EXCEPT
                          !.x = wave.input[1][g].points[i].x,
                          !.y = wave.input[1][g].points[i].y,
                          !.z = wave.input[1][g].points[i].z]
                          = wave.input[1][g].points[i]
        /\ engine.previousData[1].blendshapes = wave.input[1].blendshapes

(***************************************************************************)
(* Properties of the configuration                                         *)
(***************************************************************************)
StabilizerDefaults ==
    [minCutoff |-> DefaultMinCutoff, beta |-> DefaultBeta, dCutoff |-> DefaultDCutoff,
     processNoise |-> DefaultProcessNoise, measurementNoise |-> DefaultMeasurementNoise]
EngineDefaults ==
    [stiffness |-> DefaultStiffness, damping |-> DefaultDamping,
     propagationSpeed |-> DefaultPropagationSpeed]
\* The value of an option: the one supplied, the default when none is.
Honoured(option, default) == IF option = None THEN default ELSE option[1]
Zero(option) == option = Some(0)

\* C20: every option of the Stabilizer and of the engine has, in the configuration
\* the filters and the engine work with, the value the application supplied, zero
\* included, and the default only when the application supplied none.
C20_ConfigurationHonoured ==
    /\ \A k \in DOMAIN StabilizerDefaults :
           stabilizer.config[k] = Honoured(supplied.stabilizer[k], StabilizerDefaults[k])
    /\ \A k \in DOMAIN EngineDefaults :
           engine.config[k] = Honoured(supplied.engine[k], EngineDefaults[k])

\* C20, the part that holds: an option supplied with a value other than zero, or
\* not supplied, is honoured.
C20_NonZeroHonoured ==
    /\ \A k \in DOMAIN StabilizerDefaults :
           ~Zero(supplied.stabilizer[k]) =>
               stabilizer.config[k]
                   = Honoured(supplied.stabilizer[k], StabilizerDefaults[k])
    /\ \A k \in DOMAIN EngineDefaults :
           ~Zero(supplied.engine[k]) =>
               engine.config[k] = Honoured(supplied.engine[k], EngineDefaults[k])

\* A Stabilizer given values of its own that has filtered a moving landmark, and an
\* engine given values of its own that has processed two frames.
C20_SuppliedWitness ==
    /\ supplied.stabilizer.beta = Some(7)
    /\ supplied.engine.propagationSpeed = Some(300)
    /\ frames = MaxConfiguredFrames
    /\ Processed
    /\ wave.n = MaxConfiguredFrames

(***************************************************************************)
(* Properties of the game                                                  *)
(***************************************************************************)
\* C27: every call of gameLoop schedules the next one, whatever the state of the game.
C27_LoopKeepsRunning ==
    game.last.op = "gameLoop" => game.scheduled

\* C27, the part that holds: a call of gameLoop in a game that is not over, or that
\* finds no face, schedules the next one.
C27_LoopRunsWhilePlaying ==
    (game.last.op = "gameLoop" /\ ~game.last.pre.isGameOver) => game.scheduled

\* C28: a target is scored at most once, the score is 10 times the number of
\* successes of the round, and no call changes the score of a game that is over.
C28_ScoredOncePerTarget ==
    /\ game.round.hits <= 1
    /\ game.G.score = ScoreStep * game.round.successes
    /\ game.G.isGameOver => game.G.score = game.last.pre.score
    /\ game.G.currentTarget # None => game.round.hits = 0

\* The second target of a restarted round, after a success in each round.
C28_Witness ==
    /\ game.round.n = MaxRounds
    /\ game.last.op = "nextTarget"
    /\ game.last.next
    /\ game.round.successes = 1
    /\ game.last.pre.score = ScoreStep
    /\ game.timeouts = 0

PresentedInRound == game.round.presented
NoRepeat ==
    \A i \in 1..(Len(PresentedInRound) - 1) : PresentedInRound[i] # PresentedInRound[i + 1]
HandsUpOnce ==
    Cardinality({i \in DOMAIN PresentedInRound : PresentedInRound[i] = handsUpIndex}) <= 1

\* C29: in a round no expression is presented twice in a row, 'Hands Up!' is presented
\* at most once, and a call of nextTarget with timeLeft < 15 in a round that has not
\* had 'Hands Up!' presents it.
C29_TargetSelection ==
    /\ NoRepeat
    /\ HandsUpOnce
    /\ game.last.due => game.G.currentExpressionIndex = handsUpIndex

\* C29, the part that holds: the same with, in the last part, the first round only.
C29_FirstRoundSelection ==
    /\ NoRepeat
    /\ HandsUpOnce
    /\ (game.last.due /\ game.round.n = 1) => game.G.currentExpressionIndex = handsUpIndex
    /\ (game.last.op = "nextTarget" /\ game.last.next /\ game.last.pre.timeLeft < HalfTime
            /\ ~game.last.pre.hasHandedUpThisRound) =>
           game.G.currentExpressionIndex = handsUpIndex

\* The state of a round that has just started.
RoundStarted ==
    /\ game.G.score = 0
    /\ game.G.timeLeft = RoundTime
    /\ ~game.G.isGameOver
    /\ game.G.hasHandedUpThisRound = (game.G.currentTarget = Some(handsUpIndex))
    /\ game.G.expressionHistory = <<game.G.currentExpressionIndex>>
    /\ game.G.snapshot = None
    /\ Cardinality(game.intervals) = 1
    /\ game.G.timerInterval # None /\ game.G.timerInterval[1] \in game.intervals
    /\ game.G.currentTarget = Some(game.G.currentExpressionIndex)

\* C30: restartGame leaves the state of the round startGame leaves: score 0, timeLeft
\* 30, not over, 'Hands Up!' not had unless it is the target, only the target in the
\* history, no snapshot, one running timer, a target.
C30_RestartEqualsStart ==
    game.last.op = "restartGame" => RoundStarted

\* C30, the part that holds: startGame leaves that state, and restartGame leaves
\* score 0, timeLeft 30, a game not over, one running timer and a target.
C30_RestartResetsScoreAndTimer ==
    /\ game.last.op = "startGame" => RoundStarted
    /\ game.last.op = "restartGame" =>
           /\ game.G.score = 0
           /\ game.G.timeLeft = RoundTime
           /\ ~game.G.isGameOver
           /\ Cardinality(game.intervals) = 1
           /\ game.G.timerInterval # None /\ game.G.timerInterval[1] \in game.intervals
           /\ game.G.currentTarget = Some(game.G.currentExpressionIndex)

(***************************************************************************)
(* Properties of the loop                                                  *)
(***************************************************************************)
\* The last step was a run of loop() that got as far as asking the tracker.
Asked == tick.op \in {"skip", "ran", "threw", "nothing"}
\* The video showed the frame the tracker had seen last.
SameFrame == Asked /\ tick.video.currentTime = tick.pre[1].tracker.lastVideoTime
\* The group of the raw frame that the group g of the later frames is made from.
RawGroup(g) ==
    IF g = "face" THEN raw[1].face ELSE IF g = "body" THEN raw[1].pose ELSE raw[1].hands

\* C6: on a tick where the video time is the one the tracker saw last, detect
\* returns null, none of densify, stabilize and process is called, and the filter
\* banks of the Stabilizer, previousData and the velocity cache of the engine are
\* as they were before the tick; and no video frame passes through the pipeline
\* more than once.
C6_FrameSkipped ==
    /\ SameFrame =>
           /\ tick.op = "skip"
           /\ tick.calls = tick.pre[1].calls
           /\ stabilizer = tick.pre[1].stabilizer
           /\ engine.previousData = tick.pre[1].engine.previousData
           /\ engine.velocities = tick.pre[1].engine.velocities
    /\ \A i, j \in DOMAIN tick.ran : tick.ran[i] = tick.ran[j] => i = j

\* A skipped tick after two frames that left filters, previousData and velocities
\* of a moving body behind.
C6_Witness ==
    /\ SameFrame
    /\ tick.op = "skip"
    /\ Len(tick.ran) = 2
    /\ DOMAIN stabilizer.bodyFilters # {}
    /\ engine.previousData # None
    /\ Moving(engine.velocities)

\* C7: when a group is absent from the raw frame, densify, stabilize and process
\* each return, without an exception, a frame in which that group has no points and
\* the count 0, the filters of that group are the ones from before the frame, and
\* with the pose absent the velocity cache is the one from before the frame.
C7_MissingGroupsEmpty ==
    \A g \in GroupNames :
        (Asked /\ tick.op # "skip" /\ RawGroup(g) = None) =>
            /\ tick.op = "ran"
            /\ Densified
            /\ GroupOf(dense[1].out[1], g) = Some(Group(<<>>))
            /\ GroupOf(call.output[1], g) = Group(<<>>)
            /\ GroupOf(wave.output[1], g) = Group(<<>>)
            /\ MapOf(stabilizer, g) = MapOf(tick.pre[1].stabilizer, g)
            /\ g = "body" => engine.velocities = tick.pre[1].engine.velocities

\* A frame with hands and without a pose, after frames that left body filters and
\* velocities of a moving body behind.
C7_Witness ==
    /\ tick.op = "ran"
    /\ raw[1].pose = None
    /\ raw[1].hands # None
    /\ DOMAIN tick.pre[1].stabilizer.bodyFilters # {}
    /\ Moving(tick.pre[1].engine.velocities)
    /\ DOMAIN stabilizer.handFilters # {}

====
